---- MODULE Spec2Model ----
(***************************************************************************)
(* Model of the Pepper VR teleoperation server (src/Python): the command   *)
(* router PepperController, its specialist controllers, the joint limit    *)
(* table and the PreMotionPlayer with its background threads.              *)
(*                                                                         *)
(* The test harness (src/test_controller) is modelled as far as its dances *)
(* and its BaseController go.                                              *)
(*                                                                         *)
(* Angles, speeds and stiffnesses are fixed-point integers: 1.0 is 10000.  *)
(***************************************************************************)
EXTENDS Integers, Sequences, FiniteSets, TLC

VARIABLES
    limits,      \* JointLimits.limits: the table loaded at construction
    is_playing,  \* PreMotionPlayer._is_playing
    runs,        \* the threads started by PreMotionPlayer.play
    router,      \* the dispatch context's position inside process_command
    calls,       \* the Actuator Service calls the latest router operation issued
    ret,         \* how the latest router operation ended
    cl,          \* operands and results of the latest JointLimits.clamp probe
    conn,        \* construction stage, qi session and robot state (SpecConn)
    server,      \* the client connection handler and the health check task
    main,        \* main(): its position, pepper_controller and health_task
    dancers,     \* test_controller: the threads started for dance requests
    accumulated  \* test_controller BaseController: accumulated_x, _y, _theta

vars == <<limits, is_playing, runs, router, calls, ret, cl, conn, server,
          main, dancers, accumulated>>

(***************************************************************************)
(* Untyped JSON values.  k is the Python type of the value.                *)
(***************************************************************************)
NoMap == [f \in {} |-> 0]

Num(n) == [k |-> "num", n |-> n, s |-> "", xs |-> <<>>, m |-> NoMap]

Str(s) == [k |-> "str", n |-> 0, s |-> s, xs |-> <<>>, m |-> NoMap]

List(xs) == [k |-> "list", n |-> 0, s |-> "", xs |-> xs, m |-> NoMap]

Dict(m) == [k |-> "dict", n |-> 0, s |-> "", xs |-> <<>>, m |-> m]

None == [k |-> "none", n |-> 0, s |-> "", xs |-> <<>>, m |-> NoMap]

\* The result of an expression that raised TypeError.
Raised == [k |-> "raise", n |-> 0, s |-> "TypeError", xs |-> <<>>, m |-> NoMap]

\* Python truth value of v
Truthy(v) ==
    CASE v.k = "num" -> v.n # 0
      [] v.k = "str" -> v.s # ""
      [] v.k = "list" -> v.xs # <<>>
      [] v.k = "dict" -> DOMAIN v.m # {}
      [] OTHER -> FALSE

\* dict.get(key): None when the key is absent
Get(d, key) == IF key \in DOMAIN d.m THEN d.m[key] ELSE None

Min(a, b) == IF b < a THEN b ELSE a

Max(a, b) == IF b > a THEN b ELSE a

(***************************************************************************)
(* Actuator Service calls.                                                 *)
(***************************************************************************)
Call(op, names, vals, speed, by) ==
    [op |-> op, names |-> names, vals |-> vals, speed |-> speed, by |-> by]

\* What an operation does: the calls it issued and the exception it ended with.
Eff(cs, exc) == [calls |-> cs, exc |-> exc]

\* except KeyError alone: any other exception leaves the operation.
CaughtKeyError(eff) ==
    IF eff.exc = "KeyError" THEN [calls |-> eff.calls, exc |-> "none", caught |-> eff.exc]
    ELSE [calls |-> eff.calls, exc |-> eff.exc, caught |-> "none"]

\* except Exception: the exception is logged and does not leave the operation.
Caught(eff) == [calls |-> eff.calls, exc |-> "none", caught |-> eff.exc]

\* One call, issued a second time when the Actuator Service fails it.
IssueTwiceOnFailure(c, fail) ==
    IF fail THEN Eff(<<c, c>>, "RuntimeError") ELSE Eff(<<c>>, "none")

\* One call, which the Actuator Service may fail (fail = TRUE).
Issue(c, fail) == Eff(<<c>>, IF fail THEN "RuntimeError" ELSE "none")

(***************************************************************************)
(* utils/joint_limits.py                                                   *)
(***************************************************************************)
\* clamp without the test for an unlisted joint: self.limits[joint_name] fails
ClampListedOnly(table, joint_name, value) ==
    IF joint_name \notin DOMAIN table THEN Raised
    ELSE IF value.k # "num" THEN Raised
    ELSE Num(Max(table[joint_name].min, Min(table[joint_name].max, value.n)))

\* clamp without the upper bound
ClampUnbounded(table, joint_name, value) ==
    IF joint_name \notin DOMAIN table THEN value
    ELSE IF value.k # "num" THEN Raised
    ELSE Num(Max(table[joint_name].min, value.n))

Clamp(table, joint_name, value) ==
    IF joint_name \notin DOMAIN table THEN value
    ELSE IF value.k # "num" THEN Raised
    ELSE Num(Max(table[joint_name].min, Min(table[joint_name].max, value.n)))

(***************************************************************************)
(* pepper_control/base_controller.py                                       *)
(***************************************************************************)
max_linear == 5500

max_angular == 15000

\* linear[i] of a list (0-based in the source)
Elem(xs, i) == IF i + 1 <= Len(xs) THEN xs[i + 1] ELSE Raised

\* move without the bound on the rotation speed
BaseMoveLinearOnly(linear, angular, fail) ==
    LET x == IF linear.k = "list" THEN Elem(linear.xs, 0) ELSE Raised
        y == IF linear.k = "list" THEN Elem(linear.xs, 1) ELSE Raised
    IN  IF x.k # "num" \/ y.k # "num" \/ angular.k # "num"
        THEN Eff(<<>>, "TypeError")
        ELSE Issue(Call("moveToward", <<>>,
                        <<Num(Max(-max_linear, Min(max_linear, x.n))),
                          Num(Max(-max_linear, Min(max_linear, y.n))),
                          angular>>,
                        None, "dispatch"), fail)

BaseMove(linear, angular, fail) ==
    LET x == IF linear.k = "list" THEN Elem(linear.xs, 0) ELSE Raised
        y == IF linear.k = "list" THEN Elem(linear.xs, 1) ELSE Raised
    IN  IF x.k # "num" \/ y.k # "num" \/ angular.k # "num"
        THEN Eff(<<>>, "TypeError")
        ELSE Issue(Call("moveToward", <<>>,
                        <<Num(Max(-max_linear, Min(max_linear, x.n))),
                          Num(Max(-max_linear, Min(max_linear, y.n))),
                          Num(Max(-max_angular, Min(max_angular, angular.n)))>>,
                        None, "dispatch"), fail)

BaseStop(fail) == Issue(Call("stopMove", <<>>, <<>>, None, "estop"), fail)

(***************************************************************************)
(* pepper_control/head_controller.py                                       *)
(***************************************************************************)
\* move setting the two joints by two calls, one after the other
HeadMoveSeparate(table, yaw, pitch, speed, fail) ==
    LET clamped_yaw == Clamp(table, "HeadYaw", yaw)
        clamped_pitch == Clamp(table, "HeadPitch", pitch)
    IN  IF clamped_yaw.k = "raise" \/ clamped_pitch.k = "raise"
        THEN Eff(<<>>, "TypeError")
        ELSE Eff(<<Call("setAngles", <<"HeadYaw">>, <<clamped_yaw>>, speed, "dispatch"),
                   Call("setAngles", <<"HeadPitch">>, <<clamped_pitch>>, speed, "dispatch")>>,
                 IF fail THEN "RuntimeError" ELSE "none")

HeadMove(table, yaw, pitch, speed, fail) ==
    LET clamped_yaw == Clamp(table, "HeadYaw", yaw)
        clamped_pitch == Clamp(table, "HeadPitch", pitch)
    IN  IF clamped_yaw.k = "raise" \/ clamped_pitch.k = "raise"
        THEN Eff(<<>>, "TypeError")
        ELSE Issue(Call("setAngles", <<"HeadYaw", "HeadPitch">>,
                        <<clamped_yaw, clamped_pitch>>, speed, "dispatch"), fail)

(***************************************************************************)
(* pepper_control/hand_controller.py                                       *)
(***************************************************************************)
HandSpeed == 3000

\* move sending the value as received
HandMoveUnsaturated(side, value, fail) ==
    LET hand_name == IF side = Str("left") THEN "LHand" ELSE "RHand"
    IN  IF value.k # "num" THEN Eff(<<>>, "TypeError")
        ELSE Issue(Call("setAngles", <<hand_name>>, <<value>>,
                        Num(HandSpeed), "dispatch"), fail)

HandMove(side, value, fail) ==
    LET hand_name == IF side = Str("left") THEN "LHand" ELSE "RHand"
    IN  IF value.k # "num" THEN Eff(<<>>, "TypeError")
        ELSE Issue(Call("setAngles", <<hand_name>>,
                        <<Num(Max(0, Min(10000, value.n)))>>,
                        Num(HandSpeed), "dispatch"), fail)

(***************************************************************************)
(* pepper_control/arm_controller.py                                        *)
(***************************************************************************)
ArmKeys == <<"shoulderPitch", "shoulderRoll", "elbowYaw", "elbowRoll", "wristYaw">>

ArmJointNames(side) ==
    IF side = Str("left")
    THEN <<"LShoulderPitch", "LShoulderRoll", "LElbowYaw", "LElbowRoll", "LWristYaw">>
    ELSE <<"RShoulderPitch", "RShoulderRoll", "RElbowYaw", "RElbowRoll", "RWristYaw">>

\* move reading an absent sub-joint as 0.0 (joints.get(key, 0.0))
ArmMoveDefaults(table, side, joints, speed, fail) ==
    LET joint_names == ArmJointNames(side)
        Angle(i) == IF ArmKeys[i] \in DOMAIN joints.m THEN joints.m[ArmKeys[i]] ELSE Num(0)
        Exc(i) == IF joints.k # "dict" THEN "TypeError"
                  ELSE IF Clamp(table, joint_names[i], Angle(i)).k = "raise" THEN "TypeError"
                  ELSE "none"
        bad == {i \in 1..5 : Exc(i) # "none"}
    IN  IF bad # {}
        THEN Eff(<<>>, Exc(CHOOSE i \in bad : \A j \in bad : i <= j))
        ELSE Issue(Call("setAngles", joint_names,
                        [i \in 1..5 |-> Clamp(table, joint_names[i], Angle(i))],
                        speed, "dispatch"), fail)

\* move without JointLimits: the angles are sent as received
ArmMoveUnclamped(table, side, joints, speed, fail) ==
    LET joint_names == ArmJointNames(side)
        Exc(i) == IF joints.k # "dict" THEN "TypeError"
                  ELSE IF ArmKeys[i] \notin DOMAIN joints.m THEN "KeyError"
                  ELSE "none"
        bad == {i \in 1..5 : Exc(i) # "none"}
    IN  IF bad # {}
        THEN Eff(<<>>, Exc(CHOOSE i \in bad : \A j \in bad : i <= j))
        ELSE Issue(Call("setAngles", joint_names,
                        [i \in 1..5 |-> joints.m[ArmKeys[i]]],
                        speed, "dispatch"), fail)

ArmMove(table, side, joints, speed, fail) ==
    LET joint_names == ArmJointNames(side)
        \* the exception raised while building the i-th angle, "none" if none
        Exc(i) == IF joints.k # "dict" THEN "TypeError"
                  ELSE IF ArmKeys[i] \notin DOMAIN joints.m THEN "KeyError"
                  ELSE IF Clamp(table, joint_names[i], joints.m[ArmKeys[i]]).k = "raise"
                       THEN "TypeError"
                  ELSE "none"
        bad == {i \in 1..5 : Exc(i) # "none"}
    IN  IF bad # {}
        THEN Eff(<<>>, Exc(CHOOSE i \in bad : \A j \in bad : i <= j))
        ELSE Issue(Call("setAngles", joint_names,
                        [i \in 1..5 |-> Clamp(table, joint_names[i], joints.m[ArmKeys[i]])],
                        speed, "dispatch"), fail)

(***************************************************************************)
(* pepper_control/pre_motions.py: the hard-coded animation sequences.      *)
(* A program is the sequence of Actuator Service calls its body makes;     *)
(* the sleeps between them change no state.                                *)
(***************************************************************************)
RECURSIVE Repeat(_, _)
Repeat(seq, n) == IF n = 0 THEN <<>> ELSE seq \o Repeat(seq, n - 1)

Stiffen(group, v) == Call("setStiffnesses", <<group>>, <<Num(v)>>, None, "player")

Angles(names, vals, speed) ==
    Call("setAngles", names, [i \in DOMAIN vals |-> Num(vals[i])], Num(speed), "player")

WaveCycles == 3

_wave_motion ==
    <<Stiffen("RArm", 10000),
      Angles(<<"RShoulderPitch">>, <<-5000>>, 2000),
      Angles(<<"RShoulderRoll">>, <<-12000>>, 2000),
      Angles(<<"RElbowRoll">>, <<15000>>, 2000)>>
    \o Repeat(<<Angles(<<"RWristYaw">>, <<-10000>>, 4000),
                Angles(<<"RWristYaw">>, <<10000>>, 4000)>>, WaveCycles)

TwerkCycles == 6

ComboCycles == 4

_special_dance_motion ==
    <<Stiffen("Body", 10000),
      Angles(<<"KneePitch">>, <<5000>>, 3000)>>
    \o Repeat(<<Angles(<<"HipPitch", "HeadPitch">>, <<1500, -2000>>, 8000),
                Angles(<<"HipPitch", "HeadPitch">>, <<-1500, 2000>>, 8000)>>, TwerkCycles)
    \o Repeat(<<Angles(<<"LShoulderPitch", "RShoulderPitch">>, <<-10000, -10000>>, 6000),
                Angles(<<"HipPitch">>, <<1500>>, 8000),
                Angles(<<"LShoulderPitch", "RShoulderPitch">>, <<5000, 5000>>, 6000),
                Angles(<<"HipPitch">>, <<-1500>>, 8000)>>, ComboCycles)
    \o <<Angles(<<"LShoulderPitch", "RShoulderPitch">>, <<-15000, -15000>>, 4000),
         Angles(<<"KneePitch">>, <<8000>>, 3000),
         Angles(<<"KneePitch">>, <<0>>, 5000),
         Angles(<<"LShoulderPitch", "RShoulderPitch", "LElbowRoll", "RElbowRoll">>,
                <<-5000, -5000, -15000, 15000>>, 3000)>>

\* The body _run_motion selects for motion_name (empty for an unknown name).
\* a player that waves when it does not know the name
ProgramDefaultsToWave(motion_name) ==
    IF motion_name = Str("dance") \/ motion_name = Str("special_dance")
    THEN _special_dance_motion
    ELSE _wave_motion

Program(motion_name) ==
    IF motion_name = Str("wave") THEN _wave_motion
    ELSE IF motion_name = Str("dance") \/ motion_name = Str("special_dance")
         THEN _special_dance_motion
    ELSE <<>>

PostureSpeed == 5000

GoToStand == Call("goToPosture", <<"Stand">>, <<>>, Num(PostureSpeed), "player")

(***************************************************************************)
(* PreMotionPlayer threads.  pc is the thread's position in _run_motion:   *)
(*   free     no thread in this slot                                       *)
(*   spawned  started by play(), before the first lock block               *)
(*   body     inside try, about to issue step i of the program             *)
(*   finally  about to call goToPosture                                    *)
(*   reset    goToPosture returned, about to clear _is_playing             *)
(*   done     returned (or the body's exception left the thread)          *)
(*   dead     goToPosture raised inside finally                            *)
(***************************************************************************)
MaxRuns == 2

RunIds == 1..MaxRuns

FreeRun == [pc |-> "free", name |-> None, i |-> 0, posture |-> 0, late |-> FALSE,
            exc |-> FALSE]

Ended(r) == r.pc \in {"free", "done", "dead"}

\* Where the thread goes once the program body is left at step i.
BodyPc(motion_name, i) == IF i <= Len(Program(motion_name)) THEN "body" ELSE "finally"

(***************************************************************************)
(* pepper_control/pepper_controller.py                                     *)
(***************************************************************************)
AlwaysAllowed == {Str("pre_motion_stop"), Str("emergency_stop")}

\* a gate that only holds back base_move
GateBaseOnly(playing, cmd_type) == playing /\ cmd_type = Str("base_move")

\* line 106: TRUE when the command is dropped by the priority gate
Gate(playing, cmd_type) == playing /\ cmd_type \notin AlwaysAllowed

Has(cmd, field) == field \in DOMAIN cmd.m

_validate_base_command(cmd) ==
    IF ~Has(cmd, "linear") \/ ~Has(cmd, "angular") THEN "KeyError"
    ELSE IF cmd.m["linear"].k # "list" \/ Len(cmd.m["linear"].xs) < 2 THEN "ValueError"
    ELSE "none"

_validate_head_command(cmd) ==
    IF \E field \in {"yaw", "pitch", "speed"} : ~Has(cmd, field) THEN "KeyError"
    ELSE "none"

\* the hand validator without its check of the side value
ValidateHandFieldsOnly(cmd) ==
    IF ~Has(cmd, "side") \/ ~Has(cmd, "value") THEN "KeyError" ELSE "none"

_validate_hand_command(cmd) ==
    IF ~Has(cmd, "side") \/ ~Has(cmd, "value") THEN "KeyError"
    ELSE IF cmd.m["side"] \notin {Str("left"), Str("right")} THEN "ValueError"
    ELSE "none"

_validate_arm_command(cmd) ==
    IF ~Has(cmd, "side") \/ ~Has(cmd, "joints") \/ ~Has(cmd, "speed") THEN "KeyError"
    ELSE IF cmd.m["side"] \notin {Str("left"), Str("right")} THEN "ValueError"
    ELSE "none"

\* dispatch treating a type it does not know as a request to stop the base
SpecialistStopsOnUnknown(table, cmd, fail) ==
    LET cmd_type == Get(cmd, "type")
        Checked(v, eff) == IF v # "none" THEN Eff(<<>>, v) ELSE eff
    IN  CASE cmd_type = Str("base_move") ->
               Checked(_validate_base_command(cmd),
                       BaseMove(Get(cmd, "linear"), Get(cmd, "angular"), fail))
          [] cmd_type = Str("head_move") ->
               Checked(_validate_head_command(cmd),
                       HeadMove(table, Get(cmd, "yaw"), Get(cmd, "pitch"),
                                Get(cmd, "speed"), fail))
          [] cmd_type = Str("hand_move") ->
               Checked(_validate_hand_command(cmd),
                       HandMove(Get(cmd, "side"), Get(cmd, "value"), fail))
          [] cmd_type = Str("arm_move") ->
               Checked(_validate_arm_command(cmd),
                       ArmMove(table, Get(cmd, "side"), Get(cmd, "joints"),
                               Get(cmd, "speed"), fail))
          [] OTHER -> BaseStop(fail)

\* lines 109-134 for the live command types: validation, then the specialist.
Specialist(table, cmd, fail) ==
    LET cmd_type == Get(cmd, "type")
        Checked(v, eff) == IF v # "none" THEN Eff(<<>>, v) ELSE eff
    IN  CASE cmd_type = Str("base_move") ->
               Checked(_validate_base_command(cmd),
                       BaseMove(Get(cmd, "linear"), Get(cmd, "angular"), fail))
          [] cmd_type = Str("head_move") ->
               Checked(_validate_head_command(cmd),
                       HeadMove(table, Get(cmd, "yaw"), Get(cmd, "pitch"),
                                Get(cmd, "speed"), fail))
          [] cmd_type = Str("hand_move") ->
               Checked(_validate_hand_command(cmd),
                       HandMove(Get(cmd, "side"), Get(cmd, "value"), fail))
          [] cmd_type = Str("arm_move") ->
               Checked(_validate_arm_command(cmd),
                       ArmMove(table, Get(cmd, "side"), Get(cmd, "joints"),
                               Get(cmd, "speed"), fail))
          [] OTHER -> Eff(<<>>, "none")

\* emergency_stop without its except clause
EmergencyStopNoCatch(fail) ==
    LET s == BaseStop(fail = 1)
        t == Issue(Call("setStiffnesses", <<"Body">>, <<Num(0)>>, None, "estop"), fail = 2)
        body == IF s.exc # "none" THEN s ELSE Eff(s.calls \o t.calls, t.exc)
    IN  [calls |-> body.calls, exc |-> body.exc, caught |-> "none"]

\* lines 169-177: fail names the call the Actuator Service fails (0: none)
emergency_stop(fail) ==
    LET s == BaseStop(fail = 1)
        t == Issue(Call("setStiffnesses", <<"Body">>, <<Num(0)>>, None, "estop"), fail = 2)
        body == IF s.exc # "none" THEN s ELSE Eff(s.calls \o t.calls, t.exc)
    IN  Caught(body)

\* How a router operation ended: the exception it logged (caught) and whether
\* one reached the caller (raised).
Ret(op, caught, raised) == [op |-> op, caught |-> caught, raised |-> raised]

NoRet == Ret("none", "none", FALSE)

(***************************************************************************)
(* Inputs.                                                                 *)
(***************************************************************************)
Limit(lo, hi) == [min |-> lo, max |-> hi]

\* An empty table: the limits file was missing or unparsable.
EmptyTable == [j \in {} |-> Limit(0, 0)]

\* A table with the ranges of the robot's head, left shoulder and knee.
RobotTable ==
    [j \in {"HeadYaw", "HeadPitch", "LShoulderPitch", "KneePitch"} |->
        CASE j = "HeadYaw" -> Limit(-20857, 20857)
          [] j = "HeadPitch" -> Limit(-7068, 4451)
          [] j = "LShoulderPitch" -> Limit(-20857, 20857)
          [] j = "KneePitch" -> Limit(-5149, 5149)]

Tables == {EmptyTable, RobotTable}

\* The table the router runs with (clamp is exercised over every table of
\* ClampTables under SpecClamp).
RouterTables == {RobotTable}

Cmd(type, fields) == Dict(("type" :> Str(type)) @@ fields)

MotionNames == {"wave", "dance", "special_dance", "moonwalk"}

CmdInputs ==
    {Cmd("base_move", [linear |-> List(<<Num(100000), Num(-100000)>>),
                       angular |-> Num(1000000)]),
     Cmd("head_move", [yaw |-> Num(30000), pitch |-> Num(-10000), speed |-> Num(2000)]),
     Cmd("hand_move", [side |-> Str("left"), value |-> Num(5000)]),
     Cmd("arm_move", [side |-> Str("left"), speed |-> Num(3000),
                      joints |-> Dict([shoulderPitch |-> Num(30000),
                                       shoulderRoll |-> Num(0), elbowYaw |-> Num(0),
                                       elbowRoll |-> Num(0), wristYaw |-> Num(0)])]),
     Cmd("pre_motion_stop", NoMap),
     Cmd("emergency_stop", NoMap),
     Cmd("jump", NoMap),
     Dict(NoMap),
     List(<<>>)}
    \cup {Cmd("pre_motion", [motion_name |-> Str(n)]) : n \in MotionNames}

(***************************************************************************)
(* The state after PepperController.__init__.                              *)
(***************************************************************************)
\* Before __init__: nothing connected, the robot at rest.
NewConn == [pc |-> "new", session |-> "none", base |-> FALSE, load |-> "none",
            moving |-> FALSE, stiff |-> 0, closes |-> 0]

\* After a successful __init__: Stand posture, stiffness 1.0.
ConnReady == [pc |-> "ready", session |-> "open", base |-> TRUE, load |-> "ok",
              moving |-> FALSE, stiff |-> 10000, closes |-> 0]

\* A handler in its receive loop; status is what get_robot_status returned last.
Listening == [pc |-> "listening", exit |-> "none", stops |-> 0, status |-> None]

NoClamp == [joint |-> "", v |-> 0, out |-> None, again |-> None]

\* main() before its try block: the global pepper_controller is None and the
\* local health_task is not bound yet.
NewMain == [pc |-> "construct", pepper_controller |-> FALSE, health_task |-> FALSE,
            handled |-> "none", raised |-> "none"]

MaxDancers == 2

DanceIds == 1..MaxDancers

FreeDancer == [pc |-> "free", dance |-> "", i |-> 0, stands |-> 0,
               failed |-> FALSE, raised |-> FALSE]

\* BaseController.__init__, lines 28-31
Origin == [x |-> 0, y |-> 0, theta |-> 0]

Init ==
    /\ limits \in RouterTables
    /\ is_playing = FALSE
    /\ runs = [k \in RunIds |-> FreeRun]
    /\ router = [pc |-> "idle", cmd |-> None, gate |-> "unread"]
    /\ calls = <<>>
    /\ ret = NoRet
    /\ cl = NoClamp
    /\ conn = ConnReady
    /\ server = Listening
    /\ main = NewMain
    /\ dancers = [t \in DanceIds |-> FreeDancer]
    /\ accumulated = Origin

\* process_command taking a command while the one before it still awaits its
\* dispatch, which is thereby put off for good
ProcessCommandOverwrites(command) ==
    /\ router' = [pc |-> "gated", cmd |-> command,
                  gate |-> IF is_playing THEN "playing" ELSE "idle"]
    /\ ret' = NoRet
    /\ calls' = <<>>
    /\ UNCHANGED <<main, dancers, accumulated,
                   server, conn, limits, is_playing, runs, cl>>

(***************************************************************************)
(* process_command, lines 92-107: shape checks and the priority gate.      *)
(***************************************************************************)
ProcessCommand(command) ==
    /\ router.pc = "idle"
    /\ IF command.k # "dict" \/ ~Truthy(Get(command, "type"))
       THEN /\ router' = [pc |-> "idle", cmd |-> command, gate |-> "unread"]
            /\ ret' = Ret("process_command", "none", FALSE)
       ELSE IF Gate(is_playing, Get(command, "type"))
       THEN /\ router' = [pc |-> "idle", cmd |-> command, gate |-> "playing"]
            /\ ret' = Ret("process_command", "none", FALSE)
       ELSE /\ router' = [pc |-> "gated", cmd |-> command,
                          gate |-> IF is_playing THEN "playing" ELSE "idle"]
            /\ ret' = NoRet
    /\ calls' = <<>>
    /\ UNCHANGED <<main, dancers, accumulated,
                   server, conn, limits, is_playing, runs, cl>>

\* a dispatch whose pre_motion_stop ends the running programs and clears the
\* flag
DispatchStopsPlayer(fail) ==
    /\ router.pc = "gated"
    /\ Get(router.cmd, "type") # Str("pre_motion")
    /\ LET eff == Caught(Specialist(limits, router.cmd, fail))
       IN  /\ calls' = eff.calls
           /\ ret' = Ret("process_command", eff.caught, eff.exc # "none")
    /\ router' = [router EXCEPT !.pc = "idle"]
    /\ IF Get(router.cmd, "type") = Str("pre_motion_stop")
       THEN /\ is_playing' = FALSE
            /\ runs' = [k \in RunIds |-> IF Ended(runs[k]) THEN runs[k]
                                          ELSE [runs[k] EXCEPT !.pc = "done", !.i = 0]]
       ELSE UNCHANGED <<is_playing, runs>>
    /\ UNCHANGED <<main, dancers, accumulated,
                   server, conn, limits, cl>>

(***************************************************************************)
(* process_command, lines 109-139: dispatch of a command that passed the   *)
(* gate.  Every exception is caught and logged.                            *)
(***************************************************************************)
Dispatch(fail) ==
    /\ router.pc = "gated"
    /\ Get(router.cmd, "type") # Str("pre_motion")
    /\ LET eff == Caught(Specialist(limits, router.cmd, fail))
       IN  /\ calls' = eff.calls
           /\ ret' = Ret("process_command", eff.caught, eff.exc # "none")
    /\ router' = [router EXCEPT !.pc = "idle"]
    /\ UNCHANGED <<main, dancers, accumulated,
                   server, conn, limits, is_playing, runs, cl>>

\* play() joining the thread it started: it returns when the program is over
DispatchPreMotionJoins ==
    /\ router.pc = "gated"
    /\ Get(router.cmd, "type") = Str("pre_motion")
    /\ LET motion_name == Get(router.cmd, "motion_name")
       IN  IF Truthy(motion_name) /\ ~is_playing
           THEN \E k \in RunIds :
                   /\ Ended(runs[k])
                   /\ \A j \in RunIds : Ended(runs[j]) => k <= j
                   /\ runs' = [runs EXCEPT ![k] =
                                  [FreeRun EXCEPT !.pc = "done", !.name = motion_name,
                                                  !.posture = 1]]
           ELSE UNCHANGED runs
    /\ calls' = <<>>
    /\ ret' = Ret("process_command", "none", FALSE)
    /\ router' = [router EXCEPT !.pc = "idle"]
    /\ UNCHANGED <<main, dancers, accumulated,
                   server, conn, limits, is_playing, cl>>

(***************************************************************************)
(* process_command, lines 126-131, and PreMotionPlayer.play: the thread is *)
(* started unless is_playing() answers true.                               *)
(***************************************************************************)
DispatchPreMotion ==
    /\ router.pc = "gated"
    /\ Get(router.cmd, "type") = Str("pre_motion")
    /\ LET motion_name == Get(router.cmd, "motion_name")
       IN  IF Truthy(motion_name) /\ ~is_playing
           THEN \E k \in RunIds :
                   /\ Ended(runs[k])
                   /\ \A j \in RunIds : Ended(runs[j]) => k <= j
                   /\ runs' = [runs EXCEPT ![k] =
                                  [FreeRun EXCEPT !.pc = "spawned", !.name = motion_name]]
           ELSE UNCHANGED runs
    /\ calls' = <<>>
    /\ ret' = Ret("process_command", "none", FALSE)
    /\ router' = [router EXCEPT !.pc = "idle"]
    /\ UNCHANGED <<main, dancers, accumulated,
                   server, conn, limits, is_playing, cl>>

\* an emergency stop that also ends the running programs and clears the flag
EmergencyStopCancels(fail) ==
    /\ router.pc = "idle"
    /\ LET eff == emergency_stop(fail)
       IN  /\ calls' = eff.calls
           /\ ret' = Ret("emergency_stop", eff.caught, eff.exc # "none")
    /\ router' = [pc |-> "idle", cmd |-> None, gate |-> "unread"]
    /\ is_playing' = FALSE
    /\ runs' = [k \in RunIds |-> IF Ended(runs[k]) THEN runs[k]
                                  ELSE [runs[k] EXCEPT !.pc = "done", !.i = 0]]
    /\ UNCHANGED <<main, dancers, accumulated,
                   server, conn, limits, cl>>

(***************************************************************************)
(* PepperController.emergency_stop, invoked by the connection handler's    *)
(* finally block and by shutdown.                                          *)
(***************************************************************************)
EmergencyStop(fail) ==
    /\ router.pc = "idle"
    /\ LET eff == emergency_stop(fail)
       IN  /\ calls' = eff.calls
           /\ ret' = Ret("emergency_stop", eff.caught, eff.exc # "none")
    /\ router' = [pc |-> "idle", cmd |-> None, gate |-> "unread"]
    /\ UNCHANGED <<main, dancers, accumulated,
                   server, conn, limits, is_playing, runs, cl>>

(***************************************************************************)
(* _run_motion, one thread per play().                                     *)
(***************************************************************************)
\* lines 33-34: with self.lock: self._is_playing = True
RunBegin(k) ==
    /\ runs[k].pc = "spawned"
    /\ is_playing' = TRUE
    /\ runs' = [runs EXCEPT ![k].pc = BodyPc(runs[k].name, 1),
                            ![k].i = IF BodyPc(runs[k].name, 1) = "body" THEN 1 ELSE 0]
    /\ UNCHANGED <<main, dancers, accumulated,
                   server, conn, limits, router, calls, ret, cl>>

\* Without try/finally a raising step would end the thread at once.
AfterRaiseNoFinally == "done"

\* Where a thread goes when a step of the program body raises.
AfterRaise == "finally"

\* The call thread k issues at its next step of the program body.
StepCall(k) == Program(runs[k].name)[runs[k].i]

\* lines 39-44: one Actuator Service call of the program body (StepCall(k))
RunStep(k, fail) ==
    /\ runs[k].pc = "body"
    /\ LET pc == IF fail THEN AfterRaise ELSE BodyPc(runs[k].name, runs[k].i + 1)
       IN  runs' = [runs EXCEPT
                      ![k].pc = pc,
                      ![k].i = IF pc = "body" THEN runs[k].i + 1 ELSE 0,
                      ![k].exc = fail,
                      ![k].late = runs[k].posture > 0]
    /\ UNCHANGED <<main, dancers, accumulated,
                   server, conn, limits, is_playing, router, calls, ret, cl>>

\* line 48: self.posture.goToPosture("Stand", 0.5)
RunPosture(k, fail) ==
    /\ runs[k].pc = "finally"
    /\ runs' = [runs EXCEPT ![k].pc = IF fail THEN "dead" ELSE "reset",
                            ![k].posture = runs[k].posture + 1]
    /\ UNCHANGED <<main, dancers, accumulated,
                   server, conn, limits, is_playing, router, calls, ret, cl>>

\* lines 50-51: with self.lock: self._is_playing = False
RunReset(k) ==
    /\ runs[k].pc = "reset"
    /\ is_playing' = FALSE
    /\ runs' = [runs EXCEPT ![k].pc = "done"]
    /\ UNCHANGED <<main, dancers, accumulated,
                   server, conn, limits, router, calls, ret, cl>>

Next ==
    \/ \E command \in CmdInputs : ProcessCommand(command)
    \/ \E fail \in BOOLEAN : Dispatch(fail)
    \/ DispatchPreMotion
    \/ \E fail \in 0..2 : EmergencyStop(fail)
    \/ \E k \in RunIds : RunBegin(k)
    \/ \E k \in RunIds, fail \in BOOLEAN : RunStep(k, fail)
    \/ \E k \in RunIds, fail \in BOOLEAN : RunPosture(k, fail)
    \/ \E k \in RunIds : RunReset(k)

Spec == Init /\ [][Next]_vars

(***************************************************************************)
(* JointLimits.clamp on its own: the table is drawn from ClampTables and   *)
(* every step clamps one value for one joint, then clamps the result.      *)
(***************************************************************************)
\* A table whose HeadYaw range is a single point.
PinnedTable == [j \in {"HeadYaw", "KneePitch"} |->
                   IF j = "HeadYaw" THEN Limit(0, 0) ELSE Limit(-5149, 5149)]

\* A table with a badly written entry: min above max.
InvertedTable == [j \in {"HeadYaw", "HeadPitch"} |->
                     IF j = "HeadYaw" THEN Limit(20857, -20857) ELSE Limit(-7068, 4451)]

ClampTables == {EmptyTable, RobotTable, PinnedTable, InvertedTable}

ClampJoints == {"HeadYaw", "HeadPitch", "LShoulderPitch", "KneePitch", "RHand"}

MaxProbe == 6

ProbeStep == 5000

\* Multiples of ProbeStep up to +-MaxProbe steps, and each limit with its neighbours.
ClampValues(table) ==
    {n * ProbeStep : n \in (-MaxProbe)..MaxProbe}
    \cup UNION {{table[j].min + d, table[j].max + d} : j \in DOMAIN table, d \in -1..1}

InitClamp ==
    /\ limits \in ClampTables
    /\ is_playing = FALSE
    /\ runs = [k \in RunIds |-> FreeRun]
    /\ router = [pc |-> "idle", cmd |-> None, gate |-> "unread"]
    /\ calls = <<>>
    /\ ret = NoRet
    /\ cl = NoClamp
    /\ conn = ConnReady
    /\ server = Listening
    /\ main = NewMain
    /\ dancers = [t \in DanceIds |-> FreeDancer]
    /\ accumulated = Origin

ClampProbe(joint_name, v) ==
    /\ cl' = [joint |-> joint_name, v |-> v,
              out |-> Clamp(limits, joint_name, Num(v)),
              again |-> Clamp(limits, joint_name, Clamp(limits, joint_name, Num(v)))]
    /\ UNCHANGED <<main, dancers, accumulated,
                   server, conn, limits, is_playing, runs, router, calls, ret>>

NextClamp == \E joint_name \in ClampJoints, v \in ClampValues(limits) : ClampProbe(joint_name, v)

SpecClamp == InitClamp /\ [][NextClamp]_vars

(***************************************************************************)
(* The router on its own: one connection handler feeding process_command   *)
(* well-formed and malformed commands, with either table.  No input names  *)
(* a program, so no thread is started and is_playing stays false.          *)
(***************************************************************************)
\* cmd with one field removed / replaced
Without(cmd, field) == Dict([f \in DOMAIN cmd.m \ {field} |-> cmd.m[f]])

With(cmd, field, v) == Dict((field :> v) @@ cmd.m)

Joints(shoulderPitch) ==
    Dict([shoulderPitch |-> Num(shoulderPitch), shoulderRoll |-> Num(1000),
          elbowYaw |-> Num(-2000), elbowRoll |-> Num(3000), wristYaw |-> Num(0)])

BaseInputs ==
    {Cmd("base_move", [linear |-> List(l), angular |-> Num(w)]) :
        l \in {<<Num(100000), Num(-100000)>>, <<Num(3000), Num(-2000)>>,
               <<Num(-5501), Num(5500), Num(7)>>},
        w \in {1000000, 10000, -15001}}

HeadInputs ==
    {Cmd("head_move", [yaw |-> Num(y), pitch |-> Num(p), speed |-> Num(2000)]) :
        y \in {30000, 0}, p \in {-10000, 1000}}

HandInputs ==
    {Cmd("hand_move", [side |-> Str(s), value |-> Num(v)]) :
        s \in {"left", "right"}, v \in {5000, 20000, -1}}

ArmInputs ==
    {Cmd("arm_move", [side |-> Str(s), joints |-> Joints(p), speed |-> Num(3000)]) :
        s \in {"left", "right"}, p \in {30000, -30000, 1000}}

WellFormedInputs == BaseInputs \cup HeadInputs \cup HandInputs \cup ArmInputs

\* One command of each live type, from which the malformed ones are derived.
BaseCmd == Cmd("base_move", [linear |-> List(<<Num(3000), Num(-2000)>>),
                             angular |-> Num(10000)])

HeadCmd == Cmd("head_move", [yaw |-> Num(30000), pitch |-> Num(1000), speed |-> Num(2000)])

HandCmd == Cmd("hand_move", [side |-> Str("left"), value |-> Num(5000)])

ArmCmd == Cmd("arm_move", [side |-> Str("left"), joints |-> Joints(30000),
                           speed |-> Num(3000)])

Templates == {BaseCmd, HeadCmd, HandCmd, ArmCmd}

\* A required field of the command, or one of the five arm sub-joints, is absent.
MissingFieldInputs ==
    {Without(c, f) : c \in Templates, f \in {"linear", "angular", "yaw", "pitch",
                                             "speed", "side", "value", "joints"}}
    \cup {With(ArmCmd, "joints", Without(Joints(30000), ArmKeys[i])) : i \in 1..5}

BadSides == {Str("up"), Str(""), Num(1), None}

BadSideInputs == {With(c, "side", s) : c \in {HandCmd, ArmCmd}, s \in BadSides}

NonNumbers == {Str("abc"), None, List(<<Num(1)>>)}

\* A field holds a value of the wrong type.
WrongTypeInputs ==
    {With(HeadCmd, f, v) : f \in {"yaw", "pitch", "speed"}, v \in NonNumbers}
    \cup {With(HandCmd, "value", v) : v \in NonNumbers}
    \cup {With(BaseCmd, "angular", v) : v \in NonNumbers}
    \cup {With(BaseCmd, "linear", v) :
             v \in {Str("ab"), List(<<Num(1)>>), List(<<Str("a"), Num(1)>>)}}
    \cup {With(ArmCmd, "joints", v) : v \in {Str("abc"), Num(1), List(<<>>)}}
    \cup {With(ArmCmd, "joints", With(Joints(30000), "shoulderPitch", Str("abc"))),
          With(ArmCmd, "joints", With(Joints(30000), "wristYaw", None)),
          With(ArmCmd, "speed", Str("fast"))}

\* Inputs that are not commands of a live type.
OtherInputs ==
    {Cmd("jump", NoMap), Cmd("", NoMap), Cmd("emergency_stop", NoMap),
     Cmd("pre_motion_stop", NoMap), Dict([type |-> Num(7)]), Dict([type |-> None]),
     Dict(NoMap), List(<<>>), Str("base_move"), Num(0), None,
     Cmd("pre_motion", NoMap),
     Cmd("pre_motion", [motion_name |-> Str("")]),
     Cmd("pre_motion", [motion_name |-> List(<<>>)])}

RouterInputs ==
    WellFormedInputs \cup MissingFieldInputs \cup BadSideInputs
    \cup WrongTypeInputs \cup OtherInputs

InitRouter ==
    /\ limits \in Tables
    /\ is_playing = FALSE
    /\ runs = [k \in RunIds |-> FreeRun]
    /\ router = [pc |-> "idle", cmd |-> None, gate |-> "unread"]
    /\ calls = <<>>
    /\ ret = NoRet
    /\ cl = NoClamp
    /\ conn = ConnReady
    /\ server = Listening
    /\ main = NewMain
    /\ dancers = [t \in DanceIds |-> FreeDancer]
    /\ accumulated = Origin

NextRouter ==
    \/ \E command \in RouterInputs : ProcessCommand(command)
    \/ \E fail \in BOOLEAN : Dispatch(fail)
    \/ DispatchPreMotion

SpecRouter == InitRouter /\ [][NextRouter]_vars

(***************************************************************************)
(* Construction and shutdown of PepperController: the qi session, the      *)
(* load of the joint limit table, and what the robot is doing (conn).      *)
(* The robot's state is followed under SpecConn only.                      *)
(***************************************************************************)
\* What open() and json.load() can meet at Config/pepper_joint_limits.json.
LoadOutcomes == {"ok", "missing", "unreadable", "corrupt", "wrong_shape"}

\* Valid JSON that is not a table of min/max records.
WrongShapeTable == [j \in {"HeadYaw"} |-> [lo |-> -20857, hi |-> 20857]]

\* JointLimits.__init__, lines 23-33: the exception the try block ends with,
\* the handlers for FileNotFoundError and json.JSONDecodeError, and the table.
JointLimitsInit(outcome) ==
    LET exc == CASE outcome = "missing" -> "FileNotFoundError"
                 [] outcome = "unreadable" -> "PermissionError"
                 [] outcome = "corrupt" -> "JSONDecodeError"
                 [] OTHER -> "none"
        handled == exc \in {"FileNotFoundError", "JSONDecodeError"}
    IN  [exc |-> IF handled THEN "none" ELSE exc,
         limits |-> IF outcome = "ok" THEN RobotTable
                    ELSE IF outcome = "wrong_shape" THEN WrongShapeTable
                    ELSE EmptyTable]

\* _connect, lines 44-53 (no_session: qi.Session() itself raised)
Connect(outcome) ==
    /\ conn.pc = "new"
    /\ conn' = [conn EXCEPT
                  !.session = CASE outcome = "ok" -> "open"
                                [] outcome = "refused" -> "unconnected"
                                [] OTHER -> "none",
                  !.pc = IF outcome = "ok" THEN "connected" ELSE "failed"]
    /\ UNCHANGED <<main, dancers, accumulated,
                   server, limits, is_playing, runs, router, calls, ret, cl>>

\* _initialize_services, lines 55-75
InitServices(ok) ==
    /\ conn.pc = "connected"
    /\ conn' = [conn EXCEPT !.pc = IF ok THEN "services" ELSE "failed"]
    /\ UNCHANGED <<main, dancers, accumulated,
                   server, limits, is_playing, runs, router, calls, ret, cl>>

\* __init__, lines 32-39: JointLimits(), then the specialists
LoadLimits(outcome) ==
    /\ conn.pc = "services"
    /\ LET r == JointLimitsInit(outcome)
       IN  /\ limits' = r.limits
           /\ conn' = [conn EXCEPT !.load = outcome,
                                   !.base = r.exc = "none",
                                   !.pc = IF r.exc = "none" THEN "loaded" ELSE "failed"]
    /\ UNCHANGED <<main, dancers, accumulated,
                   server, is_playing, runs, router, calls, ret, cl>>

\* _initialize_robot, lines 77-90: fail names the call that raises (0: none)
InitRobot(fail) ==
    /\ conn.pc = "loaded"
    /\ conn' = [conn EXCEPT !.stiff = IF fail = 1 THEN conn.stiff ELSE 10000,
                            !.pc = IF fail = 0 THEN "ready" ELSE "failed"]
    /\ UNCHANGED <<main, dancers, accumulated,
                   server, limits, is_playing, runs, router, calls, ret, cl>>

\* A base_move dispatched on the ready controller; every call on a session
\* that is not open fails.
Drive(fail) ==
    /\ conn.pc = "ready"
    /\ LET eff == Caught(BaseMove(List(<<Num(3000), Num(0)>>), Num(0),
                                  fail \/ conn.session # "open"))
       IN  /\ calls' = eff.calls
           /\ ret' = Ret("process_command", eff.caught, eff.exc # "none")
           /\ conn' = [conn EXCEPT !.moving = IF eff.caught = "none" THEN TRUE ELSE conn.moving]
    /\ UNCHANGED <<main, dancers, accumulated,
                   server, limits, is_playing, runs, router, cl>>

\* emergency_stop on the controller c: without specialists self.base raises
\* AttributeError; a call that succeeds stops the base / releases the joints.
EStopOn(c, fail) ==
    LET f == IF c.session # "open" THEN 1 ELSE IF fail \in 1..2 THEN fail ELSE 0
        eff == IF c.base THEN emergency_stop(f)
               ELSE Caught(Eff(<<>>, "AttributeError"))
    IN  [calls |-> eff.calls, exc |-> eff.exc, caught |-> eff.caught,
         conn |-> [c EXCEPT !.moving = IF c.base /\ f # 1 THEN FALSE ELSE c.moving,
                            !.stiff = IF c.base /\ f = 0 THEN 0 ELSE c.stiff]]

\* session.close(), which fails when fail = 3
SessionClose == Call("close", <<"session">>, <<>>, None, "close")

\* close releasing the session before the emergency stop
CloseReleaseFirst(c, fail) ==
    LET released == IF c.session # "none" /\ fail # 3
                    THEN [c EXCEPT !.session = "closed"] ELSE c
        e == EStopOn(released, fail)
        body == Eff((IF c.session # "none" THEN <<SessionClose>> ELSE <<>>) \o e.calls,
                    IF c.session # "none" /\ fail = 3 THEN "RuntimeError" ELSE e.exc)
    IN  [eff |-> Caught(body), estop |-> e.caught, conn |-> e.conn]

\* close, lines 197-205: fail names the call that raises (0: none)
close(c, fail) ==
    LET e == EStopOn(c, fail)
        body == IF e.exc # "none" THEN Eff(e.calls, e.exc)
                ELSE IF c.session = "none" THEN Eff(e.calls, "none")
                ELSE Eff(e.calls \o <<SessionClose>>,
                         IF fail = 3 THEN "RuntimeError" ELSE "none")
    IN  [eff |-> Caught(body), estop |-> e.caught,
         conn |-> IF e.exc = "none" /\ c.session # "none" /\ fail # 3
                  THEN [e.conn EXCEPT !.session = "closed"] ELSE e.conn]

MaxCloses == 2

\* pepper_controller.emergency_stop() from signal_handler / main's finally
EStop(fail) ==
    /\ conn.pc = "ready"
    /\ LET e == EStopOn(conn, fail)
       IN  /\ calls' = e.calls
           /\ ret' = Ret("emergency_stop", e.caught, e.exc # "none")
           /\ conn' = e.conn
    /\ UNCHANGED <<main, dancers, accumulated,
                   server, limits, is_playing, runs, router, cl>>

\* pepper_controller.close(), on the ready controller or on one whose
\* construction stopped part-way
Close(fail) ==
    /\ conn.pc \in {"ready", "failed"}
    /\ conn.closes < MaxCloses
    /\ LET r == close(conn, fail)
       IN  /\ calls' = r.eff.calls
           /\ ret' = Ret("close",
                         IF r.estop # "none" THEN r.estop ELSE r.eff.caught,
                         r.eff.exc # "none")
           /\ conn' = [r.conn EXCEPT !.closes = conn.closes + 1]
    /\ UNCHANGED <<main, dancers, accumulated,
                   server, limits, is_playing, runs, router, cl>>

InitConn ==
    /\ limits = EmptyTable
    /\ is_playing = FALSE
    /\ runs = [k \in RunIds |-> FreeRun]
    /\ router = [pc |-> "idle", cmd |-> None, gate |-> "unread"]
    /\ calls = <<>>
    /\ ret = NoRet
    /\ cl = NoClamp
    /\ conn = NewConn
    /\ server = Listening
    /\ main = NewMain
    /\ dancers = [t \in DanceIds |-> FreeDancer]
    /\ accumulated = Origin

NextConn ==
    \/ \E outcome \in {"ok", "refused", "no_session"} : Connect(outcome)
    \/ \E ok \in BOOLEAN : InitServices(ok)
    \/ \E outcome \in LoadOutcomes : LoadLimits(outcome)
    \/ \E fail \in 0..2 : InitRobot(fail)
    \/ \E fail \in BOOLEAN : Drive(fail)
    \/ \E fail \in 0..2 : EStop(fail)
    \/ \E fail \in 0..3 : Close(fail)

SpecConn == InitConn /\ [][NextConn]_vars

(***************************************************************************)
(* The server around the router: one client connection after another      *)
(* (network/command_receiver.py), the health check task (main.py) and the  *)
(* PreMotionPlayer threads.  The programs named here are unknown to the    *)
(* player, so their threads have an empty body.                            *)
(***************************************************************************)
ServerInputs ==
    {BaseCmd, Cmd("jump", NoMap),
     Cmd("pre_motion", NoMap),
     Cmd("pre_motion", [motion_name |-> Str("")]),
     Cmd("pre_motion", [motion_name |-> List(<<>>)]),
     Cmd("pre_motion", [motion_name |-> Num(5)]),
     Cmd("pre_motion", [motion_name |-> Str("moonwalk")])}

\* handler, lines 21-26: a message is read and handed to process_command
Receive(command) ==
    /\ server.pc = "listening"
    /\ ProcessCommand(command)

\* handler, lines 22-28: json.loads raises on a message that is not JSON;
\* the inner except prints it and the loop goes on
ParseError ==
    /\ server.pc = "listening"
    /\ router.pc = "idle"
    /\ router' = [pc |-> "idle", cmd |-> None, gate |-> "unread"]
    /\ calls' = <<>>
    /\ ret' = Ret("json.loads", "JSONDecodeError", FALSE)
    /\ UNCHANGED <<main, dancers, accumulated,
                   server, conn, limits, is_playing, runs, cl>>

\* How the receive loop can end: the iterator finishes on a clean close,
\* ConnectionClosed is raised (and caught at line 29), or another exception
\* (cancellation included) leaves the handler.
ExitKinds == {"clean", "ConnectionClosed", "other"}

\* a handler whose emergency stop sits in the except clause of ConnectionClosed
DisconnectStopsOnClosedOnly(kind, fail) ==
    /\ server.pc = "listening"
    /\ router.pc = "idle"
    /\ LET eff == IF kind = "ConnectionClosed" THEN emergency_stop(fail)
                  ELSE Caught(Eff(<<>>, "none"))
       IN  /\ calls' = eff.calls
           /\ ret' = Ret("emergency_stop", eff.caught, eff.exc # "none")
    /\ router' = [pc |-> "idle", cmd |-> None, gate |-> "unread"]
    /\ server' = [server EXCEPT !.pc = "ended", !.exit = kind,
                                !.stops = IF kind = "ConnectionClosed"
                                          THEN server.stops + 1 ELSE server.stops]
    /\ UNCHANGED <<main, dancers, accumulated,
                   conn, limits, is_playing, runs, cl>>

\* handler, lines 29-33: the receive loop ends and the finally block calls
\* emergency_stop
Disconnect(kind, fail) ==
    /\ server.pc = "listening"
    /\ router.pc = "idle"
    /\ LET eff == emergency_stop(fail)
       IN  /\ calls' = eff.calls
           /\ ret' = Ret("emergency_stop", eff.caught, eff.exc # "none")
    /\ router' = [pc |-> "idle", cmd |-> None, gate |-> "unread"]
    /\ server' = [server EXCEPT !.pc = "ended", !.exit = kind,
                                !.stops = server.stops + 1]
    /\ UNCHANGED <<main, dancers, accumulated,
                   conn, limits, is_playing, runs, cl>>

\* websockets.serve starts a new handler for the next client
Accept ==
    /\ server.pc = "ended"
    /\ server' = [server EXCEPT !.pc = "listening", !.exit = "none", !.stops = 0]
    /\ UNCHANGED <<main, dancers, accumulated,
                   conn, limits, is_playing, runs, router, calls, ret, cl>>

Query(op, names) == Call(op, names, <<>>, None, "health")

\* The calls of get_robot_status, in the order it makes them.
StatusCalls ==
    <<Query("service", <<"ALBattery">>), Query("getBatteryCharge", <<>>),
      Query("service", <<"ALBodyTemperature">>), Query("getTemperatureStatus", <<>>),
      Query("getStiffnesses", <<"Body">>)>>

Status == Dict([battery |-> Str("charge"), temperatures |-> Str("status"),
                stiffness |-> Str("stiffnesses")])

\* get_robot_status that powers the joints before it reads their stiffness
StatusWithWakeUp(fail) ==
    LET issued == IF fail = 0 THEN StatusCalls ELSE SubSeq(StatusCalls, 1, fail)
        wake == Call("setStiffnesses", <<"Body">>, <<Num(10000)>>, None, "health")
        eff == Caught(Eff(<<wake>> \o issued, IF fail = 0 THEN "none" ELSE "RuntimeError"))
    IN  [calls |-> eff.calls, exc |-> eff.exc, caught |-> eff.caught,
         status |-> IF fail = 0 THEN Status ELSE None]

\* get_robot_status, lines 179-195: fail names the call that raises (0: none)
get_robot_status(fail) ==
    LET issued == IF fail = 0 THEN StatusCalls ELSE SubSeq(StatusCalls, 1, fail)
        eff == Caught(Eff(issued, IF fail = 0 THEN "none" ELSE "RuntimeError"))
    IN  [calls |-> eff.calls, exc |-> eff.exc, caught |-> eff.caught,
         status |-> IF fail = 0 THEN Status ELSE None]

\* health_check_loop, lines 72-86: status = pepper_ctrl.get_robot_status().
\* The task runs on the event loop, between two steps of a handler.
HealthCheck(fail) ==
    /\ router.pc = "idle"
    /\ LET r == get_robot_status(fail)
       IN  /\ calls' = r.calls
           /\ ret' = Ret("get_robot_status", r.caught, r.exc # "none")
           /\ server' = [server EXCEPT !.status = r.status]
    /\ router' = [pc |-> "idle", cmd |-> None, gate |-> "unread"]
    /\ UNCHANGED <<main, dancers, accumulated,
                   conn, limits, is_playing, runs, cl>>

InitServer ==
    /\ limits \in RouterTables
    /\ is_playing = FALSE
    /\ runs = [k \in RunIds |-> FreeRun]
    /\ router = [pc |-> "idle", cmd |-> None, gate |-> "unread"]
    /\ calls = <<>>
    /\ ret = NoRet
    /\ cl = NoClamp
    /\ conn = ConnReady
    /\ server = Listening
    /\ main = NewMain
    /\ dancers = [t \in DanceIds |-> FreeDancer]
    /\ accumulated = Origin

NextServer ==
    \/ \E command \in ServerInputs : Receive(command)
    \/ ParseError
    \/ \E fail \in BOOLEAN : Dispatch(fail)
    \/ DispatchPreMotion
    \/ \E kind \in ExitKinds, fail \in 0..2 : Disconnect(kind, fail)
    \/ Accept
    \/ \E fail \in 0..5 : HealthCheck(fail)
    \/ \E k \in RunIds : RunBegin(k)
    \/ \E k \in RunIds, fail \in BOOLEAN : RunPosture(k, fail)
    \/ \E k \in RunIds : RunReset(k)

SpecServer == InitServer /\ [][NextServer]_vars

(***************************************************************************)
(* The player against emergency stops: the router starts the wave program  *)
(* or one the player does not know, emergency_stop is invoked at any       *)
(* moment, and every started thread keeps being scheduled (weak fairness). *)
(***************************************************************************)
StopInputs == {BaseCmd, Cmd("pre_motion", [motion_name |-> Str("wave")]),
               Cmd("pre_motion", [motion_name |-> Str("moonwalk")])}

NextStop ==
    \/ \E command \in StopInputs : ProcessCommand(command)
    \/ \E fail \in BOOLEAN : Dispatch(fail)
    \/ DispatchPreMotion
    \/ \E fail \in 0..2 : EmergencyStop(fail)
    \/ \E k \in RunIds : RunBegin(k)
    \/ \E k \in RunIds, fail \in BOOLEAN : RunStep(k, fail)
    \/ \E k \in RunIds, fail \in BOOLEAN : RunPosture(k, fail)
    \/ \E k \in RunIds : RunReset(k)

\* A started thread is not starved.
ThreadsRun ==
    \A k \in RunIds :
        /\ WF_vars(RunBegin(k))
        /\ WF_vars(\E fail \in BOOLEAN : RunStep(k, fail))
        /\ WF_vars(\E fail \in BOOLEAN : RunPosture(k, fail))
        /\ WF_vars(RunReset(k))

SpecStop == Init /\ [][NextStop]_vars /\ ThreadsRun

(***************************************************************************)
(* The player against pre_motion_stop: the router starts the wave program  *)
(* and receives pre_motion_stop and head_move commands at any moment;      *)
(* every started thread keeps being scheduled (weak fairness).             *)
(***************************************************************************)
PreMotionStop == Cmd("pre_motion_stop", NoMap)

PreStopInputs == {PreMotionStop, HeadCmd,
                  Cmd("pre_motion", [motion_name |-> Str("wave")])}

NextPreStop ==
    \/ \E command \in PreStopInputs : ProcessCommand(command)
    \/ \E fail \in BOOLEAN : Dispatch(fail)
    \/ DispatchPreMotion
    \/ \E k \in RunIds : RunBegin(k)
    \/ \E k \in RunIds, fail \in BOOLEAN : RunStep(k, fail)
    \/ \E k \in RunIds, fail \in BOOLEAN : RunPosture(k, fail)
    \/ \E k \in RunIds : RunReset(k)

SpecPreStop == Init /\ [][NextPreStop]_vars /\ ThreadsRun

(***************************************************************************)
(* Going on after an emergency stop: the handler of one client keeps       *)
(* receiving commands while the handlers of other clients end, each of     *)
(* which calls emergency_stop on the controller they all share             *)
(* (network/command_receiver.py, line 33).  server.stops counts them.      *)
(***************************************************************************)
MaxPeerStops == 2

ResumeInputs == {BaseCmd, Cmd("pre_motion", [motion_name |-> Str("wave")])}

\* a router that drops every command once emergency_stop has been invoked
ReceiveLatched(command) ==
    /\ server.pc = "listening"
    /\ IF server.stops > 0
       THEN /\ router.pc = "idle"
            /\ router' = [pc |-> "idle", cmd |-> command, gate |-> "unread"]
            /\ ret' = Ret("process_command", "none", FALSE)
            /\ calls' = <<>>
            /\ UNCHANGED <<main, dancers, accumulated,
                           server, conn, limits, is_playing, runs, cl>>
       ELSE ProcessCommand(command)

\* handler, lines 21-26, with server.stops emergency stops behind it
ReceiveAfterStop(command) ==
    /\ server.pc = "listening"
    /\ ProcessCommand(command)

\* handler of another client, lines 29-33: its finally block calls
\* emergency_stop; this client's handler stays in its receive loop
PeerDisconnect(fail) ==
    /\ server.pc = "listening"
    /\ router.pc = "idle"
    /\ server.stops < MaxPeerStops
    /\ LET eff == emergency_stop(fail)
       IN  /\ calls' = eff.calls
           /\ ret' = Ret("emergency_stop", eff.caught, eff.exc # "none")
    /\ router' = [pc |-> "idle", cmd |-> None, gate |-> "unread"]
    /\ server' = [server EXCEPT !.stops = server.stops + 1]
    /\ UNCHANGED <<main, dancers, accumulated,
                   conn, limits, is_playing, runs, cl>>

NextResume ==
    \/ \E command \in ResumeInputs : ReceiveAfterStop(command)
    \/ \E fail \in BOOLEAN : Dispatch(fail)
    \/ DispatchPreMotion
    \/ \E fail \in 0..2 : PeerDisconnect(fail)
    \/ \E k \in RunIds : RunBegin(k)
    \/ \E k \in RunIds, fail \in BOOLEAN : RunStep(k, fail)
    \/ \E k \in RunIds, fail \in BOOLEAN : RunPosture(k, fail)
    \/ \E k \in RunIds : RunReset(k)

SpecResume == InitServer /\ [][NextResume]_vars

(***************************************************************************)
(* test_controller/config.py and test_controller/dances                    *)
(***************************************************************************)
\* config.py, lines 40-73 and 112-129: the joint limits clamp_joint knows
HarnessLimits ==
    [HeadYaw |-> Limit(-20857, 20857), HeadPitch |-> Limit(-6720, 5149),
     LShoulderPitch |-> Limit(-20857, 20857), RShoulderPitch |-> Limit(-20857, 20857),
     LShoulderRoll |-> Limit(87, 15620), RShoulderRoll |-> Limit(-15620, -87),
     LElbowYaw |-> Limit(-20857, 20857), RElbowYaw |-> Limit(-20857, 20857),
     LElbowRoll |-> Limit(-15620, -87), RElbowRoll |-> Limit(87, 15620),
     LWristYaw |-> Limit(-18238, 18238), RWristYaw |-> Limit(-18238, 18238),
     LHand |-> Limit(0, 10000), RHand |-> Limit(0, 10000),
     HipPitch |-> Limit(-10000, 10000), KneePitch |-> Limit(0, 10000)]

\* config.py, lines 110-135
clamp_joint(joint_name, value) ==
    IF joint_name \in DOMAIN HarnessLimits
    THEN Max(HarnessLimits[joint_name].min, Min(HarnessLimits[joint_name].max, value))
    ELSE value

\* base_dance.py, lines 23-38: the setAngles call of safe_set_angles, whose
\* failure is caught inside the helper (by "safe")
safe_set_angles(joint_names, angles, speed) ==
    Call("setAngles", joint_names,
         [i \in DOMAIN angles |-> Num(clamp_joint(joint_names[i], angles[i]))],
         Num(speed), "safe")

\* base_dance.py, lines 49-54, with its default arguments
ensure_stiffness == Call("setStiffnesses", <<"Body">>, <<Num(10000)>>, None, "safe")

\* self.motion.moveTo(x, y, theta, t) called by the dance itself (by "raw")
DanceMoveTo(x, y, theta, t) ==
    Call("moveTo", <<>>, <<Num(x), Num(y), Num(theta)>>, Num(t), "raw")

\* wave_dance.py, lines 19-38
WaveDance ==
    <<ensure_stiffness,
      safe_set_angles(<<"RShoulderPitch">>, <<-5000>>, 2000),
      safe_set_angles(<<"RShoulderRoll">>, <<-12000>>, 2000),
      safe_set_angles(<<"RElbowRoll">>, <<15000>>, 2000)>>
    \o Repeat(<<safe_set_angles(<<"RWristYaw">>, <<-10000>>, 4000),
                safe_set_angles(<<"RWristYaw">>, <<10000>>, 4000)>>, 3)

\* config.py, line 94
ROBOT_SPEED == 4000

\* robot_dance.py, lines 20-108
RobotDance ==
    <<ensure_stiffness,
      safe_set_angles(<<"HeadYaw">>, <<15000>>, ROBOT_SPEED),
      safe_set_angles(<<"HeadYaw">>, <<-15000>>, ROBOT_SPEED),
      safe_set_angles(<<"HeadYaw">>, <<0>>, ROBOT_SPEED),
      safe_set_angles(<<"RShoulderPitch">>, <<-15000>>, ROBOT_SPEED),
      safe_set_angles(<<"RElbowRoll">>, <<15000>>, ROBOT_SPEED),
      safe_set_angles(<<"LShoulderRoll">>, <<15000>>, ROBOT_SPEED),
      safe_set_angles(<<"LElbowRoll">>, <<-15000>>, ROBOT_SPEED),
      safe_set_angles(<<"RShoulderPitch", "LShoulderPitch">>, <<0, 0>>, ROBOT_SPEED),
      safe_set_angles(<<"RShoulderRoll", "LShoulderRoll">>, <<0, 0>>, ROBOT_SPEED),
      safe_set_angles(<<"RElbowRoll", "LElbowRoll">>, <<15000, -15000>>, ROBOT_SPEED),
      safe_set_angles(<<"RElbowRoll", "LElbowRoll">>, <<1000, -1000>>, ROBOT_SPEED),
      safe_set_angles(<<"RWristYaw", "LWristYaw">>, <<18000, -18000>>, ROBOT_SPEED),
      safe_set_angles(<<"RWristYaw", "LWristYaw">>, <<-18000, 18000>>, ROBOT_SPEED),
      safe_set_angles(<<"RWristYaw", "LWristYaw">>, <<0, 0>>, ROBOT_SPEED),
      safe_set_angles(<<"RShoulderPitch", "LShoulderPitch">>, <<-15000, -15000>>,
                      ROBOT_SPEED),
      safe_set_angles(<<"RElbowRoll", "LElbowRoll">>, <<15000, -15000>>, ROBOT_SPEED)>>

\* config.py, lines 87-90
SPECIAL_DANCE_CYCLES == 15

SPECIAL_DANCE_SPEED == 9500

SPECIAL_DANCE_HIP_ANGLE == 4000

SPECIAL_DANCE_KNEE_ANGLE == 6000

\* special_dance.py, lines 24-137.  safe_set_angles does not raise, so
\* has_knee is always True.
SpecialDance ==
    <<ensure_stiffness,
      safe_set_angles(<<"KneePitch">>, <<5000>>, 3000),
      safe_set_angles(<<"LShoulderPitch", "RShoulderPitch">>, <<12000, 12000>>, 3000)>>
    \o Repeat(<<safe_set_angles(<<"HipPitch", "KneePitch">>,
                                <<SPECIAL_DANCE_HIP_ANGLE, SPECIAL_DANCE_KNEE_ANGLE>>,
                                SPECIAL_DANCE_SPEED),
                safe_set_angles(<<"HipPitch", "KneePitch">>, <<-2000, 3000>>,
                                SPECIAL_DANCE_SPEED)>>, SPECIAL_DANCE_CYCLES)
    \o Repeat(<<safe_set_angles(<<"LShoulderPitch", "RShoulderPitch">>,
                                <<-10000, -10000>>, 6000),
                safe_set_angles(<<"HipPitch">>, <<SPECIAL_DANCE_HIP_ANGLE>>,
                                SPECIAL_DANCE_SPEED),
                safe_set_angles(<<"LShoulderPitch", "RShoulderPitch">>,
                                <<5000, 5000>>, 6000),
                safe_set_angles(<<"HipPitch">>, <<-1500>>, SPECIAL_DANCE_SPEED)>>, 4)
    \o <<safe_set_angles(<<"LShoulderPitch", "RShoulderPitch">>, <<-15000, -15000>>, 4000),
         safe_set_angles(<<"KneePitch">>, <<8000>>, 3000),
         safe_set_angles(<<"KneePitch">>, <<0>>, 5000),
         safe_set_angles(<<"LShoulderPitch", "RShoulderPitch", "LElbowRoll", "RElbowRoll">>,
                         <<-5000, -5000, -15000, 15000>>, 3000)>>

\* moonwalk_dance.py, lines 103-139: one pass of the glide loop, with
\* step_distance = total_distance / num_steps
MoonwalkStep(step) ==
    LET step_distance == -(5000 \div 6)
    IN
    <<safe_set_angles(<<"HipPitch">>, <<1800>>, 8000),
      DanceMoveTo(step_distance, 0, 0, 4000),
      safe_set_angles(<<"HipPitch">>, <<1200>>, 8000),
      DanceMoveTo(step_distance, 0, 0, 4000)>>
    \o (IF step % 2 = 0
        THEN <<safe_set_angles(<<"RShoulderPitch">>, <<-3000>>, 6000),
               safe_set_angles(<<"LShoulderPitch">>, <<7000>>, 6000)>>
        ELSE <<safe_set_angles(<<"LShoulderPitch">>, <<5000>>, 6000),
               safe_set_angles(<<"RShoulderPitch">>, <<-5000>>, 6000)>>)
    \o <<safe_set_angles(<<"HeadPitch">>, <<-3500 + 500 * (step % 2)>>, 8000)>>

\* moonwalk_dance.py, lines 165-173: one pass of the circle loop
MoonwalkCircle(circle_step) ==
    <<DanceMoveTo(-500, 0, 7850, 4000),
      safe_set_angles(<<"HipPitch">>, <<1500 + 300 * (circle_step % 2)>>, 8000)>>

\* moonwalk_dance.py, lines 27-220
MoonwalkDance ==
    <<ensure_stiffness,
      safe_set_angles(<<"RShoulderPitch">>, <<10000>>, 3000),
      safe_set_angles(<<"RShoulderRoll">>, <<-2000>>, 3000),
      safe_set_angles(<<"RElbowRoll">>, <<13000>>, 3000),
      safe_set_angles(<<"LShoulderPitch">>, <<0>>, 3000),
      safe_set_angles(<<"LShoulderRoll">>, <<8000>>, 3000)>>
    \o Repeat(<<safe_set_angles(<<"HipPitch">>, <<2000>>, 9000),
                safe_set_angles(<<"HipPitch">>, <<0>>, 9000)>>, 4)
    \o <<safe_set_angles(<<"LShoulderPitch", "RShoulderPitch",
                           "LShoulderRoll", "RShoulderRoll">>,
                         <<5000, 5000, 6000, -6000>>, 4000),
         DanceMoveTo(0, 0, 62800, 5000),
         safe_set_angles(<<"HeadPitch">>, <<-3500>>, 3000),
         safe_set_angles(<<"HipPitch">>, <<500>>, 3000),
         safe_set_angles(<<"HipPitch">>, <<1000>>, 3000),
         safe_set_angles(<<"HipPitch">>, <<1500>>, 3000),
         safe_set_angles(<<"KneePitch">>, <<3000>>, 3000),
         safe_set_angles(<<"RShoulderPitch">>, <<-4000>>, 3000),
         safe_set_angles(<<"RShoulderRoll">>, <<-10000>>, 3000),
         safe_set_angles(<<"RElbowRoll">>, <<8000>>, 3000),
         safe_set_angles(<<"LShoulderPitch">>, <<6000>>, 3000),
         safe_set_angles(<<"LShoulderRoll">>, <<3000>>, 3000)>>
    \o MoonwalkStep(0) \o MoonwalkStep(1) \o MoonwalkStep(2)
    \o MoonwalkStep(3) \o MoonwalkStep(4) \o MoonwalkStep(5)
    \o <<safe_set_angles(<<"RShoulderPitch", "RShoulderRoll", "LShoulderPitch">>,
                         <<-4000, -10000, 6000>>, 3000)>>
    \o Repeat(<<safe_set_angles(<<"HipPitch">>, <<1800>>, 8500),
                DanceMoveTo(-800, 0, 0, 3500),
                safe_set_angles(<<"HipPitch">>, <<1200>>, 8500),
                DanceMoveTo(-800, 0, 0, 3500)>>, 4)
    \o MoonwalkCircle(0) \o MoonwalkCircle(1) \o MoonwalkCircle(2) \o MoonwalkCircle(3)
    \o MoonwalkCircle(4) \o MoonwalkCircle(5) \o MoonwalkCircle(6) \o MoonwalkCircle(7)
    \o <<safe_set_angles(<<"HipPitch">>, <<1800>>, 3000),
         DanceMoveTo(-4000, 0, 0, 3000),
         safe_set_angles(<<"KneePitch">>, <<0>>, 5000),
         safe_set_angles(<<"HipPitch">>, <<0>>, 5000),
         safe_set_angles(<<"HeadPitch">>, <<0>>, 5000),
         safe_set_angles(<<"LShoulderPitch", "RShoulderPitch",
                           "LShoulderRoll", "RShoulderRoll">>,
                         <<-12000, -12000, 5000, -5000>>, 4000),
         safe_set_angles(<<"RShoulderPitch">>, <<-15000>>, 3000),
         safe_set_angles(<<"RElbowRoll">>, <<15000>>, 3000)>>

\* test_controller/main.py, lines 120-125: the dances dictionary
DanceNames == {"wave", "special", "robot", "moonwalk"}

DanceProgram(dance_id) ==
    CASE dance_id = "wave" -> WaveDance
      [] dance_id = "special" -> SpecialDance
      [] dance_id = "robot" -> RobotDance
      [] dance_id = "moonwalk" -> MoonwalkDance
      [] OTHER -> <<>>

\* The dances whose perform() wraps its body in try / except Exception /
\* finally (special_dance.py line 24, moonwalk_dance.py line 28).
HasFinally(dance_id) == dance_id \in {"special", "moonwalk"}

\* The speed perform() hands to return_to_stand (default 0.5).
StandSpeed(dance_id) == IF HasFinally(dance_id) THEN 6000 ELSE 5000

\* return_to_stand without its try / except
ReturnToStandRaises(speed, fail) ==
    LET e == Issue(Call("goToPosture", <<"Stand">>, <<>>, Num(speed), "dance"), fail)
    IN  [calls |-> e.calls, exc |-> e.exc, caught |-> "none"]

\* base_dance.py, lines 40-47
return_to_stand(speed, fail) ==
    Caught(Issue(Call("goToPosture", <<"Stand">>, <<>>, Num(speed), "dance"), fail))

\* thread t has ended or was never started
DanceOver(d) == d.pc \in {"free", "done", "raised"}

\* _trigger_dance (control_panel.py 340-349) / _execute_dance
\* (voice_commander_hybrid.py 320-325): a thread is started for dance_id,
\* whatever the other threads are doing.  t is the first slot not in use.
TriggerDance(t, dance_id) ==
    /\ DanceOver(dancers[t])
    /\ \A u \in DanceIds : DanceOver(dancers[u]) => t <= u
    /\ dancers' = [dancers EXCEPT ![t] = [FreeDancer EXCEPT !.pc = "started",
                                                            !.dance = dance_id]]
    /\ UNCHANGED <<main, accumulated, server, conn, limits, is_playing, runs,
                   router, calls, ret, cl>>

\* _execute_dance, lines 353-359: perform() is entered if the dictionary
\* holds dance_id, otherwise the thread logs an error and ends
DanceBegin(t) ==
    /\ dancers[t].pc = "started"
    /\ dancers' = [dancers EXCEPT
                     ![t].pc = IF dancers[t].dance \in DanceNames THEN "perform"
                               ELSE "done",
                     ![t].i = IF dancers[t].dance \in DanceNames THEN 1 ELSE 0]
    /\ UNCHANGED <<main, accumulated, server, conn, limits, is_playing, runs,
                   router, calls, ret, cl>>

\* The call thread t issues at its next step of perform().
DanceCall(t) == DanceProgram(dancers[t].dance)[dancers[t].i]

\* One call of perform().  A failing call made through a helper is logged
\* there and the dance goes on; one made by the dance itself raises, which
\* leads to the finally block if perform() has one and out of perform()
\* otherwise.
DanceStep(t, fail) ==
    /\ dancers[t].pc = "perform"
    /\ LET d == dancers[t]
           escapes == fail /\ DanceCall(t).by = "raw"
           last == d.i = Len(DanceProgram(d.dance))
           pc == IF escapes THEN (IF HasFinally(d.dance) THEN "stand" ELSE "raised")
                 ELSE IF last THEN "stand" ELSE "perform"
       IN  dancers' = [dancers EXCEPT ![t].pc = pc,
                                      ![t].i = IF pc = "perform" THEN d.i + 1 ELSE 0,
                                      ![t].failed = d.failed \/ fail,
                                      ![t].raised = pc = "raised"]
    /\ UNCHANGED <<main, accumulated, server, conn, limits, is_playing, runs,
                   router, calls, ret, cl>>

\* self.return_to_stand(...) at the end of perform()
DanceStand(t, fail) ==
    /\ dancers[t].pc = "stand"
    /\ LET d == dancers[t]
           r == return_to_stand(StandSpeed(d.dance), fail)
       IN  dancers' = [dancers EXCEPT
                         ![t].pc = IF r.exc = "none" THEN "done" ELSE "raised",
                         ![t].stands = d.stands + Len(r.calls),
                         ![t].failed = d.failed \/ fail,
                         ![t].raised = r.exc # "none"]
    /\ UNCHANGED <<main, accumulated, server, conn, limits, is_playing, runs,
                   router, calls, ret, cl>>

(***************************************************************************)
(* The GUI and the voice commander: every dance request starts a thread.   *)
(* "tango" is a dance_id the dictionary does not hold.                     *)
(***************************************************************************)
NextDance ==
    \/ \E t \in DanceIds, dance_id \in DanceNames \cup {"tango"} :
          TriggerDance(t, dance_id)
    \/ \E t \in DanceIds : DanceBegin(t)
    \/ \E t \in DanceIds, fail \in BOOLEAN : DanceStep(t, fail)
    \/ \E t \in DanceIds, fail \in BOOLEAN : DanceStand(t, fail)

SpecDance == Init /\ [][NextDance]_vars

(***************************************************************************)
(* The keyboard tester: input_handler.py calls perform() on its own        *)
(* thread, so one dance is performed after the other.                      *)
(***************************************************************************)
\* input_handler.py, lines 198-213: keys 1 to 4
PressDanceKey(dance_id) ==
    /\ \A t \in DanceIds : DanceOver(dancers[t])
    /\ TriggerDance(1, dance_id)

NextPerform ==
    \/ \E dance_id \in DanceNames : PressDanceKey(dance_id)
    \/ DanceBegin(1)
    \/ \E fail \in BOOLEAN : DanceStep(1, fail)
    \/ \E fail \in BOOLEAN : DanceStand(1, fail)

SpecPerform == Init /\ [][NextPerform]_vars

(***************************************************************************)
(* main() of src/Python/main.py around the construction of the controller: *)
(* the try block, its except clauses and the finally block.                *)
(***************************************************************************)
\* line 105: PepperController(...) has returned and is bound to the global
Constructed ==
    /\ main.pc = "construct"
    /\ conn.pc = "ready"
    /\ main' = [main EXCEPT !.pc = "video", !.pepper_controller = TRUE]
    /\ UNCHANGED <<dancers, accumulated, server, conn, limits, is_playing, runs,
                   router, calls, ret, cl>>

\* lines 139-149: PepperController(...) raised; _connect turns a refused
\* connection into ConnectionError, anything else reaches except Exception
ConstructFailed ==
    /\ main.pc = "construct"
    /\ conn.pc = "failed"
    /\ main' = [main EXCEPT !.pc = "finally",
                            !.handled = IF conn.session = "unconnected"
                                        THEN "ConnectionError" ELSE "Exception"]
    /\ UNCHANGED <<dancers, accumulated, server, conn, limits, is_playing, runs,
                   router, calls, ret, cl>>

\* lines 108-118: the video thread is started
StartVideo ==
    /\ main.pc = "video"
    /\ main' = [main EXCEPT !.pc = "health"]
    /\ UNCHANGED <<dancers, accumulated, server, conn, limits, is_playing, runs,
                   router, calls, ret, cl>>

\* line 121: health_task = asyncio.create_task(...)
StartHealth ==
    /\ main.pc = "health"
    /\ main' = [main EXCEPT !.pc = "serve", !.health_task = TRUE]
    /\ UNCHANGED <<dancers, accumulated, server, conn, limits, is_playing, runs,
                   router, calls, ret, cl>>

\* line 137: while command_server.start() waits, commands are served
Serve(fail) ==
    /\ main.pc = "serve"
    /\ Drive(fail)

\* lines 137-149: start() raises (KeyboardInterrupt, or OSError when the
\* port is taken) and an except clause handles it
ServeEnd(kind) ==
    /\ main.pc = "serve"
    /\ main' = [main EXCEPT !.pc = "finally",
                            !.handled = IF kind = "OSError" THEN "Exception" ELSE kind]
    /\ UNCHANGED <<dancers, accumulated, server, conn, limits, is_playing, runs,
                   router, calls, ret, cl>>

\* lines 150-156: if pepper_controller: emergency_stop(), close()
Cleanup(fail_stop, fail_close) ==
    /\ main.pc = "finally"
    /\ IF main.pepper_controller
       THEN LET e == EStopOn(conn, fail_stop)
                r == close(e.conn, fail_close)
            IN  /\ calls' = e.calls \o r.eff.calls
                /\ ret' = Ret("close",
                              IF r.estop # "none" THEN r.estop ELSE r.eff.caught,
                              r.eff.exc # "none")
                /\ conn' = [r.conn EXCEPT !.closes = conn.closes + 1]
       ELSE UNCHANGED <<calls, ret, conn>>
    /\ main' = [main EXCEPT !.pc = "cancel"]
    /\ UNCHANGED <<dancers, accumulated, server, limits, is_playing, runs, router, cl>>

\* lines 158-159: if health_task: health_task.cancel().  health_task is a
\* local of main(); reading it before line 121 has run raises
\* UnboundLocalError.
CancelHealth ==
    /\ main.pc = "cancel"
    /\ main' = IF main.health_task
               THEN [main EXCEPT !.pc = "returned"]
               ELSE [main EXCEPT !.pc = "raised", !.raised = "UnboundLocalError"]
    /\ UNCHANGED <<dancers, accumulated, server, conn, limits, is_playing, runs,
                   router, calls, ret, cl>>

NextMain ==
    \/ \E outcome \in {"ok", "refused", "no_session"} : Connect(outcome)
    \/ \E ok \in BOOLEAN : InitServices(ok)
    \/ \E outcome \in LoadOutcomes : LoadLimits(outcome)
    \/ \E fail \in 0..2 : InitRobot(fail)
    \/ Constructed
    \/ ConstructFailed
    \/ StartVideo
    \/ StartHealth
    \/ \E fail \in BOOLEAN : Serve(fail)
    \/ \E kind \in {"KeyboardInterrupt", "OSError"} : ServeEnd(kind)
    \/ \E fail_stop \in 0..2, fail_close \in 0..3 : Cleanup(fail_stop, fail_close)
    \/ CancelHealth

SpecMain == InitConn /\ [][NextMain]_vars

(***************************************************************************)
(* test_controller/controllers/base_controller.py: the incremental mode of *)
(* BaseController.  Distances and angles are fixed-point, 1.0 is 10000.    *)
(***************************************************************************)
\* config.py, line 29
LINEAR_STEP == 500

\* config.py, line 30
ANGULAR_STEP == 2000

\* base_controller.py, line 34
MAX_ACCUMULATED == 100000

\* How many ANGULAR_STEPs accumulated_theta is followed away from 0.
MaxTurns == 1

\* move_incremental without the min / max against MAX_ACCUMULATED
MoveIncrementalUnbounded(a, direction) ==
    CASE direction = "forward" -> [a EXCEPT !.x = a.x + LINEAR_STEP]
      [] direction = "back" -> [a EXCEPT !.x = a.x - LINEAR_STEP]
      [] direction = "left" -> [a EXCEPT !.y = a.y + LINEAR_STEP]
      [] direction = "right" -> [a EXCEPT !.y = a.y - LINEAR_STEP]
      [] direction = "rotate_left" -> [a EXCEPT !.theta = a.theta + ANGULAR_STEP]
      [] direction = "rotate_right" -> [a EXCEPT !.theta = a.theta - ANGULAR_STEP]
      [] OTHER -> a

\* move_incremental, lines 59-70: the accumulated position after the call
move_incremental(a, direction) ==
    CASE direction = "forward" ->
           [a EXCEPT !.x = Min(a.x + LINEAR_STEP, MAX_ACCUMULATED)]
      [] direction = "back" ->
           [a EXCEPT !.x = Max(a.x - LINEAR_STEP, -MAX_ACCUMULATED)]
      [] direction = "left" ->
           [a EXCEPT !.y = Min(a.y + LINEAR_STEP, MAX_ACCUMULATED)]
      [] direction = "right" ->
           [a EXCEPT !.y = Max(a.y - LINEAR_STEP, -MAX_ACCUMULATED)]
      [] direction = "rotate_left" -> [a EXCEPT !.theta = a.theta + ANGULAR_STEP]
      [] direction = "rotate_right" -> [a EXCEPT !.theta = a.theta - ANGULAR_STEP]
      [] OTHER -> a

\* move_incremental, lines 54-76: the position is updated, then moveTo is
\* called with it.  A failing moveTo is caught and logged (lines 75-76): it
\* changes nothing the controller keeps, and the call returns normally.
MoveIncremental(direction) ==
    /\ LET a == move_incremental(accumulated, direction)
       IN  /\ a.theta <= MaxTurns * ANGULAR_STEP
           /\ a.theta >= -(MaxTurns * ANGULAR_STEP)
           /\ accumulated' = a
           /\ calls' = <<Call("moveTo", <<>>, <<Num(a.x), Num(a.y), Num(a.theta)>>,
                              None, "base")>>
    /\ ret' = Ret("move_incremental", "none", FALSE)
    /\ UNCHANGED <<main, dancers, server, conn, limits, is_playing, runs, router, cl>>

\* reset_position, lines 78-83
ResetPosition ==
    /\ accumulated' = Origin
    /\ calls' = <<>>
    /\ ret' = Ret("reset_position", "none", FALSE)
    /\ UNCHANGED <<main, dancers, server, conn, limits, is_playing, runs, router, cl>>

\* The directions input_handler.py sends, and one move_incremental ignores.
NextBase ==
    \/ \E direction \in {"forward", "back", "left", "right",
                         "rotate_left", "rotate_right", "up"} :
          MoveIncremental(direction)
    \/ ResetPosition

SpecBase == Init /\ [][NextBase]_vars

(***************************************************************************)
(* Properties of the router and the player (checked under Spec).           *)
(***************************************************************************)
CmdType(cmd) == Get(cmd, "type")

HasCall(cs, op) == \E i \in DOMAIN cs : cs[i].op = op

HasLimp(cs) ==
    \E i \in DOMAIN cs : /\ cs[i].op = "setStiffnesses"
                         /\ cs[i].names = <<"Body">>
                         /\ cs[i].vals = <<Num(0)>>

\* process_command has returned for the command in router.cmd
Processed == router.pc = "idle" /\ ret.op = "process_command"

\* C1: a command read by the gate while is_playing() is true, with a type other
\* than pre_motion_stop and emergency_stop, is dropped: process_command returns
\* at the gate, no Actuator Service call is issued and no thread is started.
\* (A step of the idle router that changes router and reads the gate is the
\* first part of process_command on the command router'.cmd.)
C1_PriorityGate ==
    /\ [](router.gate = "playing" /\ CmdType(router.cmd) \notin AlwaysAllowed
            => router.pc = "idle" /\ calls = <<>>)
    /\ [][(/\ is_playing
            /\ router.pc = "idle"
            /\ router' # router
            /\ router'.gate # "unread"
            /\ CmdType(router'.cmd) \notin AlwaysAllowed)
          => runs' = runs /\ calls' = <<>> /\ router'.pc = "idle"]_vars

C1_Witness ==
    /\ is_playing
    /\ Processed
    /\ router.gate = "playing"
    /\ CmdType(router.cmd) = Str("base_move")

\* C2: no specialist call (moveToward, setAngles issued by the dispatch context)
\* is made while a thread started by play() has not yet completed its
\* goToPosture call.
InProgram(r) == r.pc \in {"spawned", "body", "finally"}

C2_ExclusiveOwnership ==
    [][(\E fail \in BOOLEAN : Dispatch(fail)) /\ calls' # <<>>
       => \A k \in RunIds : ~InProgram(runs[k])]_vars

\* C3: at most one program execution context (a thread that has set is_playing
\* and not yet reset it) exists at any time.
C3_MutualExclusion ==
    Cardinality({k \in RunIds : runs[k].pc \in {"body", "finally", "reset"}}) <= 1

\* C4: every thread of _run_motion issues goToPosture exactly once, after the
\* last step of the program it executed: none before the finally block, one
\* from then on, and no program step after it.
C4_ReturnToPosture ==
    \A k \in RunIds :
        /\ runs[k].pc \in {"free", "spawned", "body", "finally"} => runs[k].posture = 0
        /\ runs[k].pc \in {"reset", "done", "dead"} => runs[k].posture = 1
        /\ ~runs[k].late

C4_Witness ==
    \E k \in RunIds : /\ runs[k].pc = "done"
                      /\ runs[k].name = Str("special_dance")
                      /\ runs[k].exc
                      /\ runs[k].posture = 1

\* C5: once every started thread has ended, is_playing is false, on every exit
\* path of _run_motion.
C5_BackToIdle ==
    (\A k \in RunIds : Ended(runs[k])) => ~is_playing

\* C6: process_command on an emergency_stop command issues stopMove and
\* setStiffnesses("Body", 0.0).
C6_EmergencyStopCommand ==
    Processed /\ CmdType(router.cmd) = Str("emergency_stop")
        => HasCall(calls, "stopMove") /\ HasLimp(calls)

\* C7: every emergency_stop() issues both stopMove and setStiffnesses("Body", 0.0).
C7_EmergencyStopIssuesBoth ==
    ret.op = "emergency_stop" => HasCall(calls, "stopMove") /\ HasLimp(calls)

\* C8: emergency_stop() returns normally whichever of its calls fails.
C8_EmergencyStopNeverRaises ==
    ret.op = "emergency_stop" => ~ret.raised

C8_Witness ==
    /\ ret.op = "emergency_stop"
    /\ ret.caught = "RuntimeError"
    /\ ~ret.raised

\* Every angle of a setAngles call for a joint of the table is a number within
\* the joint's range.
WithinLimits(table, c) ==
    c.op = "setAngles" =>
        \A i \in DOMAIN c.names :
            c.names[i] \in DOMAIN table =>
                /\ c.vals[i].k = "num"
                /\ table[c.names[i]].min <= c.vals[i].n
                /\ c.vals[i].n <= table[c.names[i]].max

\* C9: every setAngles call, from the head and arm specialists and from every
\* step of a motion program, carries angles within the table's ranges.
C9_CommandedAngles ==
    /\ [](\A i \in DOMAIN calls : WithinLimits(limits, calls[i]))
    /\ [][\A k \in RunIds :
            runs[k].pc = "body" /\ runs'[k] # runs[k] => WithinLimits(limits, StepCall(k))]_vars

(***************************************************************************)
(* Properties of JointLimits.clamp (checked under SpecClamp).              *)
(***************************************************************************)
\* C10: for a joint with a table entry min <= max, clamp(joint, v) lies in
\* [min, max] and clamping the result again changes nothing.
C10_ClampBoundedIdempotent ==
    cl.joint \in DOMAIN limits /\ limits[cl.joint].min <= limits[cl.joint].max
        => /\ cl.out.k = "num"
           /\ limits[cl.joint].min <= cl.out.n
           /\ cl.out.n <= limits[cl.joint].max
           /\ cl.again = cl.out

C10_Witness ==
    /\ cl.joint \in DOMAIN limits
    /\ limits[cl.joint].min < limits[cl.joint].max
    /\ cl.v > limits[cl.joint].max
    /\ cl.out = Num(limits[cl.joint].max)
    /\ cl.again = cl.out

(***************************************************************************)
(* Properties of dispatch and validation (checked under SpecRouter).       *)
(***************************************************************************)
\* process_command has returned after dispatching the command in router.cmd
Dispatched == Processed /\ router.gate = "idle"

IsNum(v) == v.k = "num"

\* v held to [lo, hi]
Sat(lo, hi, v) == IF v < lo THEN lo ELSE IF v > hi THEN hi ELSE v

\* v held to the table's range for the joint, v itself when the joint has none
Limited(table, name, v) ==
    IF name \in DOMAIN table THEN Sat(table[name].min, table[name].max, v) ELSE v

LeftArm == <<"LShoulderPitch", "LShoulderRoll", "LElbowYaw", "LElbowRoll", "LWristYaw">>

RightArm == <<"RShoulderPitch", "RShoulderRoll", "RElbowYaw", "RElbowRoll", "RWristYaw">>

\* an arm_move as the command schema writes it: side, speed, five numeric sub-joints
WellFormedArm(cmd) ==
    /\ CmdType(cmd) = Str("arm_move")
    /\ Get(cmd, "side") \in {Str("left"), Str("right")}
    /\ IsNum(Get(cmd, "speed"))
    /\ Get(cmd, "joints").k = "dict"
    /\ \A i \in 1..5 : IsNum(Get(Get(cmd, "joints"), ArmKeys[i]))

\* C11: a dispatched arm_move with side left or right and all five sub-joints
\* results in exactly one setAngles call, naming the five joints of that side
\* in order (shoulder pitch, shoulder roll, elbow yaw, elbow roll, wrist yaw),
\* its i-th angle being the i-th input held to the table's range of the i-th
\* side-qualified joint, at the commanded speed.
C11_ArmMoveClamped ==
    Dispatched /\ WellFormedArm(router.cmd) =>
        LET names == IF Get(router.cmd, "side") = Str("left") THEN LeftArm ELSE RightArm
            joints == Get(router.cmd, "joints")
        IN  /\ Len(calls) = 1
            /\ calls[1].op = "setAngles"
            /\ calls[1].names = names
            /\ DOMAIN calls[1].vals = 1..5
            /\ \A i \in 1..5 :
                  calls[1].vals[i] = Num(Limited(limits, names[i], joints.m[ArmKeys[i]].n))
            /\ calls[1].speed = Get(router.cmd, "speed")

\* shoulderPitch 3.0 on the left arm, limit 2.0857: the call carries 2.0857
C11_Witness ==
    /\ Dispatched
    /\ WellFormedArm(router.cmd)
    /\ Get(router.cmd, "side") = Str("left")
    /\ Get(Get(router.cmd, "joints"), "shoulderPitch") = Num(30000)
    /\ limits = RobotTable
    /\ Len(calls) = 1
    /\ calls[1].names[1] = "LShoulderPitch"
    /\ calls[1].vals[1] = Num(20857)

\* C12: a hand_move or arm_move whose side is not "left" or "right" is
\* rejected: process_command issues no Actuator Service call and returns
\* without an exception.
C12_BadSideRejected ==
    /\ Processed
    /\ CmdType(router.cmd) \in {Str("hand_move"), Str("arm_move")}
    /\ Get(router.cmd, "side") \notin {Str("left"), Str("right")}
    => calls = <<>> /\ ~ret.raised

\* hand_move with side "up", otherwise complete, rejected by the validator
C12_Witness ==
    /\ Dispatched
    /\ router.cmd = With(HandCmd, "side", Str("up"))
    /\ ret.caught = "ValueError"
    /\ calls = <<>>

\* The fields a command of a live type must carry.
Required(cmd_type) ==
    CASE cmd_type = Str("base_move") -> {"linear", "angular"}
      [] cmd_type = Str("head_move") -> {"yaw", "pitch", "speed"}
      [] cmd_type = Str("hand_move") -> {"side", "value"}
      [] cmd_type = Str("arm_move") -> {"side", "joints", "speed"}
      [] OTHER -> {}

\* cmd lacks a required field, or its joints record lacks a sub-joint
MissingField(cmd) ==
    \/ \E f \in Required(CmdType(cmd)) : ~Has(cmd, f)
    \/ /\ CmdType(cmd) = Str("arm_move")
       /\ Get(cmd, "joints").k = "dict"
       /\ \E i \in 1..5 : ~Has(Get(cmd, "joints"), ArmKeys[i])

\* C13: a command of a live type that lacks a required field (linear, angular;
\* yaw, pitch, speed; side, value; side, joints, speed, or one of the five arm
\* sub-joints) results in no Actuator Service call at all.
C13_MissingFieldRejected ==
    Processed /\ MissingField(router.cmd) => calls = <<>>

\* an arm_move lacking only its last sub-joint: nothing is sent for the other four
C13_Witness ==
    /\ Dispatched
    /\ router.cmd = With(ArmCmd, "joints", Without(Joints(30000), "wristYaw"))
    /\ ret.caught = "KeyError"
    /\ calls = <<>>

\* a field of cmd is present with the wrong type: a yaw, pitch, speed, value or
\* angular that is not a number, or a joints that is not a record
WrongType(cmd) ==
    \/ \E f \in {"yaw", "pitch", "speed", "value", "angular"} \cap Required(CmdType(cmd)) :
          Has(cmd, f) /\ ~IsNum(cmd.m[f])
    \/ CmdType(cmd) = Str("arm_move") /\ Has(cmd, "joints") /\ cmd.m["joints"].k # "dict"

\* C14: a command of a live type with a wrong-typed field (non-numeric yaw,
\* pitch, speed, value or angular, or joints that is not a record) results in
\* no Actuator Service call, whatever the joint limit table holds, the empty
\* table included.
C14_WrongTypeRejected ==
    Processed /\ WrongType(router.cmd) => calls = <<>>

\* C15: process_command returns normally whatever it is given (an input that is
\* not a record, a missing or unknown type, missing or ill-typed fields) and
\* whichever Actuator Service call fails during dispatch: no exception reaches
\* the caller, and the router is ready for the next command.
C15_ProcessCommandNeverRaises ==
    /\ ~ret.raised
    /\ (router.pc = "idle" /\ router.cmd # None => ret.op = "process_command")

\* an ill-typed command on which the specialist raised TypeError, returned from
C15_Witness ==
    /\ Dispatched
    /\ WrongType(router.cmd)
    /\ ret.caught = "TypeError"
    /\ ~ret.raised

\* C16: a dispatched base_move with linear [vx, vy, ...] and angular w results
\* in exactly one moveToward call whose arguments are vx and vy held to
\* [-0.55, 0.55] and w held to [-1.5, 1.5].
C16_BaseSaturation ==
    /\ Dispatched
    /\ CmdType(router.cmd) = Str("base_move")
    /\ Get(router.cmd, "linear").k = "list"
    /\ Len(Get(router.cmd, "linear").xs) >= 2
    /\ \A i \in 1..2 : IsNum(Get(router.cmd, "linear").xs[i])
    /\ IsNum(Get(router.cmd, "angular"))
    => LET linear == Get(router.cmd, "linear").xs
           w == Get(router.cmd, "angular").n
       IN  /\ Len(calls) = 1
           /\ calls[1].op = "moveToward"
           /\ calls[1].vals = <<Num(Sat(-5500, 5500, linear[1].n)),
                                Num(Sat(-5500, 5500, linear[2].n)),
                                Num(Sat(-15000, 15000, w))>>

\* move([10, -10], 100) issues moveToward(0.55, -0.55, 1.5)
C16_Witness ==
    /\ Dispatched
    /\ Get(router.cmd, "linear") = List(<<Num(100000), Num(-100000)>>)
    /\ Get(router.cmd, "angular") = Num(1000000)
    /\ Len(calls) = 1
    /\ calls[1].op = "moveToward"
    /\ calls[1].vals = <<Num(5500), Num(-5500), Num(15000)>>

\* C22: a dispatched head_move with numeric yaw and pitch results in exactly
\* one setAngles call, naming HeadYaw and HeadPitch together, with the yaw held
\* to the table's HeadYaw range and the pitch to its HeadPitch range, at the
\* commanded speed; the two joints are never set by separate calls.
C22_HeadMoveAtomic ==
    /\ Dispatched
    /\ CmdType(router.cmd) = Str("head_move")
    /\ IsNum(Get(router.cmd, "yaw")) /\ IsNum(Get(router.cmd, "pitch"))
    /\ Has(router.cmd, "speed")
    => /\ Len(calls) = 1
       /\ calls[1].op = "setAngles"
       /\ calls[1].names = <<"HeadYaw", "HeadPitch">>
       /\ calls[1].vals = <<Num(Limited(limits, "HeadYaw", Get(router.cmd, "yaw").n)),
                            Num(Limited(limits, "HeadPitch", Get(router.cmd, "pitch").n))>>
       /\ calls[1].speed = Get(router.cmd, "speed")

\* yaw 3.0 and pitch -1.0 against HeadYaw +-2.0857 and HeadPitch [-0.7068, 0.4451]
C22_Witness ==
    /\ Dispatched
    /\ limits = RobotTable
    /\ router.cmd = Cmd("head_move", [yaw |-> Num(30000), pitch |-> Num(-10000),
                                      speed |-> Num(2000)])
    /\ calls = <<Call("setAngles", <<"HeadYaw", "HeadPitch">>,
                      <<Num(20857), Num(-7068)>>, Num(2000), "dispatch")>>

\* C23: a dispatched hand_move with side left or right and a numeric value
\* results in exactly one setAngles call, on LHand for left and RHand for
\* right, with the value held to [0.0, 1.0] and the speed 0.3.
C23_HandMoveSaturated ==
    /\ Dispatched
    /\ CmdType(router.cmd) = Str("hand_move")
    /\ Get(router.cmd, "side") \in {Str("left"), Str("right")}
    /\ IsNum(Get(router.cmd, "value"))
    => /\ Len(calls) = 1
       /\ calls[1].op = "setAngles"
       /\ calls[1].names = IF Get(router.cmd, "side") = Str("left")
                            THEN <<"LHand">> ELSE <<"RHand">>
       /\ calls[1].vals = <<Num(Sat(0, 10000, Get(router.cmd, "value").n))>>
       /\ calls[1].speed = Num(3000)

\* the right hand asked to open to 2.0 is sent 1.0
C23_Witness ==
    /\ Dispatched
    /\ router.cmd = Cmd("hand_move", [side |-> Str("right"), value |-> Num(20000)])
    /\ calls = <<Call("setAngles", <<"RHand">>, <<Num(10000)>>, Num(3000), "dispatch")>>

LiveTypes == {Str("base_move"), Str("head_move"), Str("hand_move"), Str("arm_move")}

\* C24: processing a live command attempts at most one Actuator Service call;
\* when that call fails it appears once, the command is dropped (the failure
\* is logged, process_command returns) and nothing is issued again until
\* another command has been read; a well-formed command dispatched next
\* gets its one call whatever happened to the one before.
C24_NoRetry ==
    /\ [](Processed /\ CmdType(router.cmd) \in LiveTypes
            => /\ Len(calls) <= 1
               /\ (ret.caught = "RuntimeError" => Len(calls) = 1 /\ ~ret.raised))
    /\ [][/\ (router.pc = "idle" => calls' = <<>>)
          /\ (router.pc = "gated" /\ router.cmd \in WellFormedInputs
                => Len(calls') = 1 /\ router'.pc = "idle")]_vars

\* a well-formed command whose single call the Actuator Service failed
C24_Witness ==
    /\ Dispatched
    /\ router.cmd \in WellFormedInputs
    /\ ret.caught = "RuntimeError"
    /\ Len(calls) = 1

\* c is the call the specialist of cmd's type makes
CallOf(cmd, c) ==
    CASE CmdType(cmd) = Str("base_move") -> c.op = "moveToward"
      [] CmdType(cmd) = Str("head_move") ->
            c.op = "setAngles" /\ c.names = <<"HeadYaw", "HeadPitch">>
      [] CmdType(cmd) = Str("hand_move") ->
            c.op = "setAngles" /\ c.names \in {<<"LHand">>, <<"RHand">>}
      [] CmdType(cmd) = Str("arm_move") ->
            c.op = "setAngles" /\ c.names \in {LeftArm, RightArm}
      [] OTHER -> FALSE

\* C25: Actuator Service calls follow the arrival order of the commands: a
\* command is read only when the one before it has been dispatched, and every
\* call issued is the call of the command read last, so no call is deferred
\* behind a later command, batched with it or issued ahead of an earlier one.
C25_ArrivalOrder ==
    /\ [](calls # <<>> => Processed /\ \A i \in DOMAIN calls : CallOf(router.cmd, calls[i]))
    /\ [][/\ (router'.cmd # router.cmd => router.pc = "idle")
          /\ (calls' # <<>> => router.pc = "gated" /\ router'.cmd = router.cmd)]_vars

\* an arm_move's call, issued before anything else was read
C25_Witness ==
    /\ Dispatched
    /\ CmdType(router.cmd) = Str("arm_move")
    /\ Len(calls) = 1
    /\ CallOf(router.cmd, calls[1])

\* The command types of the protocol.
ProtocolTypes ==
    {Str(t) : t \in {"base_move", "head_move", "hand_move", "arm_move",
                     "pre_motion", "pre_motion_stop", "emergency_stop"}}

\* a record with a type that is none of the protocol's
UnknownType(cmd) ==
    cmd.k = "dict" /\ Truthy(CmdType(cmd)) /\ CmdType(cmd) \notin ProtocolTypes

\* C20: a command with an unknown type is dropped with no effect: processing it
\* issues no Actuator Service call and raises nothing, starts no program,
\* leaves is_playing, the threads and the table as they were, and leaves the
\* router idle, so the next command meets the state it would have met had the
\* unknown one not been received.
C20_UnknownTypeDropped ==
    /\ [](Processed /\ UnknownType(router.cmd) => calls = <<>> /\ ~ret.raised)
    /\ [][UnknownType(router'.cmd) /\ router' # router
            => /\ runs' = runs /\ is_playing' = is_playing /\ limits' = limits
               /\ calls' = <<>>
               /\ (router.pc = "gated" => router'.pc = "idle")]_vars

\* {"type": "jump"} dispatched in the window in which a started thread has
\* not yet set is_playing: nothing happens, the thread is as it was
C20_Witness ==
    /\ Dispatched
    /\ CmdType(router.cmd) = Str("jump")
    /\ calls = <<>>
    /\ ret = Ret("process_command", "none", FALSE)
    /\ \E k \in RunIds : runs[k].pc = "spawned"

(***************************************************************************)
(* Properties of construction and shutdown (checked under SpecConn).       *)
(***************************************************************************)
\* what close() leaves behind: the session and the robot
Shut(c) == <<c.session, c.moving, c.stiff>>

\* C17: close() never raises; it performs the emergency stop before it
\* releases the session (stopMove comes first, session.close last); a close()
\* during which nothing failed leaves the base stopped, the stiffness zero and
\* the session released; and a close() on a controller whose session is already
\* released, or whose construction stopped part-way, returns normally, the
\* former leaving session and robot as the first call left them.
C17_CloseIdempotent ==
    /\ [](ret.op = "close" =>
            /\ ~ret.raised
            /\ \A i \in DOMAIN calls : calls[i].op = "close" => i = Len(calls)
            /\ (conn.base => calls # <<>> /\ calls[1].op = "stopMove")
            /\ (conn.pc = "ready" /\ ret.caught = "none"
                  => ~conn.moving /\ conn.stiff = 0 /\ conn.session = "closed"))
    /\ [][conn'.closes = conn.closes + 1 /\ conn.session = "closed"
            => Shut(conn') = Shut(conn) /\ ret'.op = "close" /\ ~ret'.raised]_vars

\* the second close(): its calls fail on the released session and are absorbed
C17_Witness ==
    /\ conn.pc = "ready"
    /\ conn.closes = 2
    /\ ret.op = "close"
    /\ ret.caught = "RuntimeError"
    /\ Shut(conn) = <<"closed", FALSE, 0>>

\* C18: whatever goes wrong with the load of the joint limit table (file
\* missing, unreadable, corrupt, or holding wrongly shaped content),
\* JointLimits() completes, construction goes on to the specialists, and the
\* table is empty.
C18_LoadNeverBlocks ==
    conn.load \in {"missing", "unreadable", "corrupt", "wrong_shape"}
        => conn.base /\ limits = EmptyTable

\* C19 (checked under SpecClamp): for a joint the table does not list,
\* clamp(joint, v) returns v itself and does not fail, whatever the table.
C19_PassThrough ==
    cl.joint # "" /\ cl.joint \notin DOMAIN limits
        => cl.out = Num(cl.v) /\ cl.out.k # "raise" /\ cl.again = cl.out

\* RHand is not in the robot's table: 3.0 comes back as 3.0
C19_Witness ==
    /\ limits = RobotTable
    /\ cl.joint = "RHand"
    /\ cl.v = 30000
    /\ cl.out = Num(30000)

(***************************************************************************)
(* Properties of the server and the player (checked under SpecServer).     *)
(***************************************************************************)
\* C21: a pre_motion whose motion_name is missing, empty or not a string
\* starts no program, so every thread there is was started for a non-empty
\* string name.
C21_NoProgramWithoutName ==
    \A k \in RunIds :
        runs[k].pc # "free" => runs[k].name.k = "str" /\ runs[k].name.s # ""

\* The Actuator Service operations that move the robot or set its stiffness.
MotionOps == {"moveToward", "stopMove", "setAngles", "setStiffnesses", "goToPosture"}

\* C26: get_robot_status, as called by the health check loop, issues no
\* motion, posture or stiffness-setting call, returns None when a service call
\* fails and the status otherwise, never raises, and leaves is_playing, the
\* player threads and the robot as they were, whether a program plays or not.
C26_HealthReadOnly ==
    /\ [](ret.op = "get_robot_status"
            => /\ ~ret.raised
               /\ \A i \in DOMAIN calls : calls[i].op \notin MotionOps
               /\ (ret.caught # "none" <=> server.status = None)
               /\ (ret.caught = "none" => server.status = Status /\ calls = StatusCalls))
    /\ [][/\ ret'.op = "get_robot_status"
          /\ (ret' # ret \/ calls' # calls \/ router' # router
                \/ server'.status # server.status)
          => runs' = runs /\ is_playing' = is_playing /\ conn' = conn
             /\ limits' = limits]_vars

\* a status poll whose third call failed, made while a program is Playing
C26_Witness ==
    /\ ret = Ret("get_robot_status", "RuntimeError", FALSE)
    /\ Len(calls) = 3
    /\ server.status = None
    /\ is_playing
    /\ \E k \in RunIds : runs[k].pc = "finally"

\* C30: a connection handler that has ended, by a clean close, by
\* ConnectionClosed or by any other exit of its receive loop, has invoked
\* emergency_stop exactly once, and a handler still listening has not; the
\* stop is made in the step that ends the loop, when no command is in the
\* middle of process_command, and it does not raise; a message that fails to
\* parse, or a command whose processing fails, leaves the handler listening.
C30_DisconnectSafety ==
    /\ [](/\ (server.pc = "ended" => server.stops = 1 /\ server.exit \in ExitKinds)
          /\ (server.pc = "listening" => server.stops = 0))
    /\ [][/\ (server.pc = "listening" /\ server'.pc = "ended"
                => /\ router.pc = "idle"
                   /\ ret'.op = "emergency_stop" /\ ~ret'.raised
                   /\ calls' # <<>> /\ calls'[1].op = "stopMove")
          /\ (ret'.op \in {"json.loads", "process_command"} /\ ret'.caught # "none"
                /\ ret' # ret
                => server.pc = "listening" /\ server' = server)]_vars

\* a handler that ended on an exception other than ConnectionClosed, stopped once
C30_Witness ==
    /\ server.pc = "ended"
    /\ server.exit = "other"
    /\ server.stops = 1
    /\ ret.op = "emergency_stop"
    /\ HasCall(calls, "stopMove") /\ HasLimp(calls)

(***************************************************************************)
(* Properties of the player under emergency stops (checked under SpecStop) *)
(***************************************************************************)
\* thread k is past play() and has not yet left _run_motion
Running(k) == runs[k].pc \in {"spawned", "body", "finally", "reset"}

\* C27: emergency_stop leaves is_playing and every player thread where they
\* are; a thread in the program body goes on one step at a time until its
\* last step (or a raising step) takes it to goToPosture; is_playing is
\* cleared only by a thread whose goToPosture has returned; and every started
\* thread does get to the end of _run_motion, stops or no stops.
C27_EmergencyStopDoesNotCancel ==
    /\ [][/\ ret'.op = "emergency_stop" /\ (ret' # ret \/ calls' # calls \/ router' # router)
             => runs' = runs /\ is_playing' = is_playing
          /\ \A k \in RunIds :
               runs[k].pc = "body" /\ runs'[k] # runs[k]
                 => \/ runs'[k].pc = "body" /\ runs'[k].i = runs[k].i + 1
                    \/ /\ runs'[k].pc = "finally"
                       /\ runs[k].i = Len(Program(runs[k].name)) \/ runs'[k].exc
          /\ (is_playing /\ ~is_playing'
                => \E k \in RunIds : runs[k].pc = "reset" /\ runs[k].posture = 1
                                      /\ runs'[k].pc = "done")]_vars
    /\ \A k \in RunIds : Running(k) ~> (runs[k].pc \in {"done", "dead"})

\* an emergency stop has returned and a wave thread is in the middle of its
\* program with is_playing still set
C27_Witness ==
    /\ ret.op = "emergency_stop"
    /\ HasLimp(calls)
    /\ is_playing
    /\ \E k \in RunIds : /\ runs[k].pc = "body"
                          /\ runs[k].name = Str("wave")
                          /\ runs[k].i = 6

\* thread k was started for a name the player has no program for
UnknownRun(k) ==
    /\ runs[k].pc # "free"
    /\ runs[k].name \notin {Str("wave"), Str("dance"), Str("special_dance")}

\* C28: a thread started for an unknown program name is never in the program
\* body and issues no motion step; its steps are, in this order, setting
\* is_playing, the goToPosture call, and clearing is_playing (the last one
\* provided goToPosture returned), and it does take them.
C28_UnknownProgramNoMotion ==
    /\ [](\A k \in RunIds : UnknownRun(k) => runs[k].pc # "body" /\ runs[k].i = 0)
    /\ [][\A k \in RunIds :
            UnknownRun(k) /\ Running(k) /\ runs'[k] # runs[k]
              => \/ runs[k].pc = "spawned" /\ runs'[k].pc = "finally" /\ is_playing'
                 \/ /\ runs[k].pc = "finally" /\ runs'[k].pc \in {"reset", "dead"}
                    /\ runs'[k].posture = 1
                 \/ runs[k].pc = "reset" /\ runs'[k].pc = "done" /\ ~is_playing']_vars
    /\ \A k \in RunIds : UnknownRun(k) /\ Running(k) ~> (runs[k].pc \in {"done", "dead"})

\* the thread of "moonwalk" at its end: one goToPosture, no step, flag cleared
C28_Witness ==
    /\ ~is_playing
    /\ \E k \in RunIds : /\ runs[k].name = Str("moonwalk")
                          /\ runs[k].pc = "done"
                          /\ runs[k].posture = 1
                          /\ ~runs[k].exc

\* C29: play() returns without waiting for the program: when process_command
\* returns from a pre_motion, the thread it started (if any) has not taken a
\* step, not even the one that sets is_playing; and whenever the router is
\* idle, a program playing or not, the next command can be read and
\* emergency_stop can be invoked, which returns in the same step.
C29_PlayNeverBlocks ==
    /\ [](router.pc = "idle"
            => /\ ENABLED (\E fail \in 0..2 : EmergencyStop(fail))
               /\ ENABLED (\E command \in StopInputs : ProcessCommand(command)))
    /\ [][router.pc = "gated" /\ CmdType(router.cmd) = Str("pre_motion") /\ router' # router
            => /\ router'.pc = "idle"
               /\ ret' = Ret("process_command", "none", FALSE)
               /\ is_playing' = is_playing
               /\ \A k \in RunIds :
                     \/ runs'[k] = runs[k]
                     \/ runs'[k] = [FreeRun EXCEPT !.pc = "spawned",
                                                   !.name = Get(router.cmd, "motion_name")]]_vars

\* process_command has returned from pre_motion "wave" while the thread it
\* started has not run yet
C29_Witness ==
    /\ Dispatched
    /\ router.cmd = Cmd("pre_motion", [motion_name |-> Str("wave")])
    /\ \E k \in RunIds : runs[k] = [FreeRun EXCEPT !.pc = "spawned", !.name = Str("wave")]
    /\ \A k \in RunIds : runs[k].pc \in {"free", "spawned"}
    /\ ~is_playing

(***************************************************************************)
(* Properties of pre_motion_stop (checked under SpecPreStop).              *)
(***************************************************************************)
\* C31: pre_motion_stop passes the priority gate, a program playing or not;
\* processing it issues no Actuator Service call, raises and logs nothing,
\* and leaves is_playing and every player thread where they are; a running
\* thread goes on through its program one step after the other, and reaches
\* the end of _run_motion.
C31_PreMotionStopNoEffect ==
    /\ [][router'.cmd = PreMotionStop /\ router' # router
            => /\ router.pc = "idle" => router'.pc = "gated"
               /\ router.pc = "gated"
                    => router'.pc = "idle" /\ ret' = Ret("process_command", "none", FALSE)
               /\ calls' = <<>>
               /\ is_playing' = is_playing
               /\ runs' = runs]_vars
    /\ [][\A k \in RunIds :
            runs[k].pc = "body" /\ runs'[k] # runs[k]
              => \/ runs'[k].pc = "body" /\ runs'[k].i = runs[k].i + 1
                 \/ /\ runs'[k].pc = "finally"
                    /\ runs[k].i = Len(Program(runs[k].name)) \/ runs'[k].exc]_vars
    /\ \A k \in RunIds : runs[k].pc = "body" ~> (runs[k].pc \in {"done", "dead"})

\* process_command has returned from a pre_motion_stop that passed the gate
\* while the wave program was playing, and the wave thread is still in the
\* middle of its program with is_playing set
C31_Witness ==
    /\ Processed
    /\ router.cmd = PreMotionStop
    /\ router.gate = "playing"
    /\ is_playing
    /\ \E k \in RunIds : /\ runs[k].pc = "body"
                          /\ runs[k].name = Str("wave")
                          /\ runs[k].i = 4

(***************************************************************************)
(* Properties of the router after an emergency stop (checked under         *)
(* SpecResume).                                                            *)
(***************************************************************************)
\* C32: emergency_stop changes nothing the router or the player reads; with
\* any number of emergency stops behind it and no program playing, the next
\* command passes the gate, a base_move is dispatched to BaseMove with the
\* one moveToward call it always gives, and a pre_motion starts a thread;
\* the first step of every program sets a stiffness to 1.0.
C32_EmergencyStopDoesNotLatch ==
    /\ [][server'.stops # server.stops
            => /\ limits' = limits /\ is_playing' = is_playing /\ runs' = runs
               /\ conn' = conn
               /\ router'.pc = "idle"]_vars
    /\ [](server.stops > 0 /\ router.pc = "idle" /\ ~is_playing
            => \A command \in ResumeInputs :
                  ENABLED (ReceiveAfterStop(command) /\ router'.pc = "gated"))
    /\ [][server.stops > 0 /\ router.pc = "gated" /\ router' # router
            => IF router.cmd = BaseCmd
               THEN /\ \E fail \in BOOLEAN :
                         LET eff == Caught(Specialist(limits, BaseCmd, fail))
                         IN  /\ calls' = eff.calls
                             /\ ret' = Ret("process_command", eff.caught, FALSE)
                    /\ Len(calls') = 1
                    /\ calls'[1].op = "moveToward"
               ELSE ~is_playing
                      => \E k \in RunIds :
                            /\ Ended(runs[k])
                            /\ runs'[k] = [FreeRun EXCEPT !.pc = "spawned",
                                                          !.name = Str("wave")]]_vars
    /\ [](\A k \in RunIds :
            runs[k].pc = "body" /\ runs[k].i = 1
              => /\ StepCall(k).op = "setStiffnesses"
                 /\ StepCall(k).vals = <<Num(10000)>>)

\* after an emergency stop a base_move has been dispatched to moveToward
\* while the thread of a wave is at its first step, setStiffnesses("RArm", 1.0)
C32_Witness ==
    /\ server.stops > 0
    /\ Dispatched
    /\ router.cmd = BaseCmd
    /\ Len(calls) = 1 /\ calls[1].op = "moveToward"
    /\ ret.caught = "none"
    /\ ~is_playing
    /\ \E k \in RunIds : runs[k] = [FreeRun EXCEPT !.pc = "spawned", !.name = Str("wave")]

(***************************************************************************)
(* Properties of the test harness dances (checked under SpecDance).        *)
(***************************************************************************)
\* thread t is inside perform(), between its first and its last call
Performing(t) == dancers[t].pc \in {"perform", "stand"}

\* C33: at most one dance thread is inside perform(), issuing actuator
\* calls, at any time.
C33_DancesExcluded == Cardinality({t \in DanceIds : Performing(t)}) <= 1

(***************************************************************************)
(* Properties of perform() (checked under SpecPerform).                    *)
(***************************************************************************)
\* C34: perform() of each of the four dances issues goToPosture("Stand")
\* once and as its last call, whichever of its calls fail: no goToPosture
\* has been issued while the dance is going on, perform() is left only
\* through return_to_stand, with exactly one goToPosture issued, and no
\* exception leaves perform(), a failure of goToPosture included.
C34_DanceEndsWithStand ==
    /\ [](\A t \in DanceIds :
            /\ dancers[t].pc \in {"perform", "stand"} => dancers[t].stands = 0
            /\ dancers[t].pc = "done" => dancers[t].stands = 1
            /\ dancers[t].pc # "raised" /\ ~dancers[t].raised)
    /\ [][\A t \in DanceIds :
            Performing(t) /\ ~Performing(t)'
              => /\ dancers[t].pc = "stand"
                 /\ dancers'[t].pc = "done"
                 /\ dancers'[t].stands = 1]_vars

\* a moonwalk has returned after some of its calls failed: it went through
\* return_to_stand once
C34_Witness ==
    /\ dancers[1].dance = "moonwalk"
    /\ dancers[1].pc = "done"
    /\ dancers[1].failed
    /\ dancers[1].stands = 1

(***************************************************************************)
(* Properties of main() (checked under SpecMain).                          *)
(***************************************************************************)
\* C35: when the construction of PepperController raises, main() handles
\* the exception and its finally block raises none.
C35_StartupFailureHandled ==
    ~main.pepper_controller /\ main.handled # "none" => main.raised = "none"

(***************************************************************************)
(* Properties of the test harness BaseController (checked under SpecBase). *)
(***************************************************************************)
\* C36: accumulated_x and accumulated_y stay within -MAX_ACCUMULATED and
\* MAX_ACCUMULATED after any sequence of move_incremental and
\* reset_position calls, and the moveTo call of move_incremental carries the
\* accumulated position as it is after the update.
C36_PositionBounded ==
    /\ accumulated.x <= MAX_ACCUMULATED /\ accumulated.x >= -MAX_ACCUMULATED
    /\ accumulated.y <= MAX_ACCUMULATED /\ accumulated.y >= -MAX_ACCUMULATED
    /\ ret.op = "move_incremental"
         => calls = <<Call("moveTo", <<>>,
                           <<Num(accumulated.x), Num(accumulated.y),
                             Num(accumulated.theta)>>, None, "base")>>
    /\ ret.op = "reset_position" => accumulated = Origin /\ calls = <<>>

\* move_incremental has brought accumulated_x to the upper bound and
\* accumulated_y to the lower one, and moveTo was called with them
C36_Witness ==
    /\ accumulated.x = MAX_ACCUMULATED
    /\ accumulated.y = -MAX_ACCUMULATED
    /\ ret.op = "move_incremental"
    /\ calls[1].vals = <<Num(MAX_ACCUMULATED), Num(-MAX_ACCUMULATED), Num(0)>>

====
